---- MODULE Spec2Model ----
(***************************************************************************)
(* A model of spectrum-proxy: the resource pack HTTP server (cache,        *)
(* request handler, readiness gate), the startup sequence of main, and the *)
(* operator console (command dispatch, shutdown paths).                    *)
(*                                                                         *)
(* Strings are sequences of one-character strings, so that TrimPrefix,     *)
(* Contains, Fields and the comparisons of the code are computed and not   *)
(* assumed.                                                                *)
(***************************************************************************)
EXTENDS Integers, Sequences, FiniteSets, TLC

VARIABLES
    packs,          \* ResourcePackServer.packs: UUID -> pack
    contentCache,   \* ResourcePackServer.contentCache: UUID -> bytes
    loaded,         \* history: UUID -> the pack NewResourcePackServer read in full
    req,            \* one record per request-handler goroutine
    listener,       \* the socket net.Listen returned: "none" | "bound" | "closed"
    ready,          \* the ready channel: FALSE open, TRUE closed
    srv,            \* the http.Server: "new" | "serving" | "closed"
    startPc,        \* the goroutine running Start: "none" when no call is running
    startErr,       \* what the last call of Start returned: "" | "bind" | "closed"
                    \* ("" while it runs)
    panicked,       \* the process died of a panic
    waiter,         \* goroutines calling WaitForReady
    conf,           \* the configuration readConfig returned
    mainPc,         \* where main is
    serverMap,      \* the global serverMap: server name -> address
    rps,            \* the global resourcePackServer is not nil
    rewrite,        \* ModifyResourcePackForCDN: "no" | "invoked" | "done"
    mainPacks,      \* main's packs, as handed to proxy.Listen
    engine,         \* the proxying engine: "none" | "listening" | "closed"
    sessions,       \* display names of the sessions in the engine's registry
    consolePc,      \* the processCommand goroutine
    hist,           \* the HistoryFile of the console
    cur,            \* the trimmed line the executor is dispatching
    out,            \* what handleCommand did with the last line
    exit,           \* how the process ended: "" while it runs
    store,          \* a HistoryFile with its file on disk, entry by entry
    comp,           \* the last call of Completer.Complete and what it returned
    swap            \* the call of UpdatePacks that holds packMutex, and its argument

serverVars ==
    <<packs, contentCache, loaded, req, listener, ready, srv, startPc, startErr, panicked, waiter>>

mainVars ==
    <<conf, mainPc, serverMap, rps, rewrite, mainPacks, engine, sessions, consolePc, hist, cur,
      out, exit, store, comp>>

\* the variables of main other than the store and the completer
progVars ==
    <<conf, mainPc, serverMap, rps, rewrite, mainPacks, engine, sessions, consolePc, hist, cur,
      out, exit>>

vars == <<serverVars, mainVars, swap>>

\* the process runs: it has neither panicked nor exited
Alive == ~panicked /\ exit = ""

(***************************************************************************)
(* Strings                                                                 *)
(***************************************************************************)

\* strings.HasPrefix
HasPrefix(s, p) == Len(p) <= Len(s) /\ SubSeq(s, 1, Len(p)) = p

\* strings.TrimPrefix: s without the leading p, or s itself
TrimPrefix(s, p) == IF HasPrefix(s, p) THEN SubSeq(s, Len(p) + 1, Len(s)) ELSE s

\* strings.Contains
Contains(s, sub) ==
    \E i \in 1..(Len(s) - Len(sub) + 1) : SubSeq(s, i, i + Len(sub) - 1) = sub

\* unicode.IsSpace, on the characters used here
IsSpace(c) == c \in {" ", "\t", "\n", "\r"}

RECURSIVE TrimLeftSpace(_)
TrimLeftSpace(s) ==
    IF s # <<>> /\ IsSpace(Head(s)) THEN TrimLeftSpace(Tail(s)) ELSE s

RECURSIVE TrimRightSpace(_)
TrimRightSpace(s) ==
    IF s # <<>> /\ IsSpace(s[Len(s)]) THEN TrimRightSpace(SubSeq(s, 1, Len(s) - 1)) ELSE s

\* strings.TrimSpace
TrimSpace(s) == TrimRightSpace(TrimLeftSpace(s))

RECURSIVE FieldsAcc(_, _, _)
FieldsAcc(s, word, acc) ==
    LET flushed == IF word = <<>> THEN acc ELSE Append(acc, word) IN
    IF s = <<>> THEN flushed
    ELSE IF IsSpace(Head(s)) THEN FieldsAcc(Tail(s), <<>>, flushed)
    ELSE FieldsAcc(Tail(s), Append(word, Head(s)), acc)

\* strings.Fields: the maximal runs of non-space characters
Fields(s) == FieldsAcc(s, <<>>, <<>>)

RECURSIVE Join(_, _)
\* strings.Join
Join(words, sep) ==
    IF words = <<>> THEN <<>>
    ELSE IF Len(words) = 1 THEN words[1]
    ELSE words[1] \o sep \o Join(Tail(words), sep)

(***************************************************************************)
(* Packs                                                                   *)
(***************************************************************************)

\* the longest list of packs handed to NewResourcePackServer or UpdatePacks
MaxPacks == 2

UuidA == <<"a">>
UuidB == <<"b">>

\* *resource.Pack: UUID() and the bytes ReadAt yields. PackA2 is another
\* pack published under the UUID of PackA.
PackA == [uuid |-> UuidA, content |-> <<1>>, url |-> <<>>]
PackB == [uuid |-> UuidB, content |-> <<2, 3>>, url |-> <<>>]
PackA2 == [uuid |-> UuidA, content |-> <<4, 5>>, url |-> <<>>]

Pack == {PackA, PackB, PackA2}

NoPack == [uuid |-> <<>>, content |-> <<>>, url |-> <<>>]

\* lists of packs with pairwise distinct UUIDs
PackLists ==
    {l \in UNION {[1..n -> Pack] : n \in 0..MaxPacks} :
        \A i, j \in 1..Len(l) : i # j => l[i].uuid # l[j].uuid}

\* the UUID -> pack map both NewResourcePackServer and UpdatePacks build:
\* a later pack of the list overwrites an earlier one of the same UUID
PackMap(l) ==
    [u \in {l[i].uuid : i \in 1..Len(l)} |->
        l[CHOOSE i \in 1..Len(l) :
            /\ l[i].uuid = u
            /\ \A j \in (i + 1)..Len(l) : l[j].uuid # u]]

\* the last pack of l at a position of ok that has UUID u
LastRead(l, ok, u) ==
    l[CHOOSE i \in ok :
        /\ l[i].uuid = u
        /\ \A j \in ok : j > i => l[j].uuid # u]

\* a slip of LoadCache: every entry holds the buffer of the last pack read
LoadCacheLastBuffer(l, ok) ==
    [u \in {l[i].uuid : i \in ok} |->
        l[CHOOSE i \in ok : \A j \in ok : j <= i].content]

\* the content cache NewResourcePackServer builds, where ok is the set of
\* list positions whose ReadAt succeeded
LoadCache(l, ok) ==
    [u \in {l[i].uuid : i \in ok} |-> LastRead(l, ok, u).content]

(***************************************************************************)
(* Request handlers                                                        *)
(***************************************************************************)

Handlers == {"h1", "h2"}

\* r.URL.Path of the requests
RequestPaths ==
    { <<>>, <<"/">>, <<"/", "a">>, <<"/", "b">>, <<"/", ".">>,
      <<"/", ".", ".">>, <<"/", "a", "/", "b">>, <<"/", "a", ".", ".">>, <<"a">> }

StatusOK == 200
StatusNotFound == 404
StatusInternalServerError == 500

IdleReq ==
    [pc |-> "idle", url |-> <<>>, path |-> <<>>, pack |-> NoPack, content |-> <<>>,
     status |-> 0, body |-> <<>>, lookups |-> 0, locks |-> {}]

\* a slip of InvalidPath: the guard without the ".." test
InvalidPathNoDots(path) ==
    \/ path = <<>>
    \/ Contains(path, <<"/">>)

\* the path-traversal guard of handleRequest
InvalidPath(path) ==
    \/ path = <<>>
    \/ Contains(path, <<".", ".">>)
    \/ Contains(path, <<"/">>)

\* s.packs[path] under packMutex.RLock
LookupPack(path) == IF path \in DOMAIN packs THEN packs[path] ELSE NoPack

\* a slip of FoundPack: an identifier the cache still holds counts as found
FoundPackOrCached(path) == path \in DOMAIN packs \/ path \in DOMAIN contentCache

\* the ok of that lookup
FoundPack(path) == path \in DOMAIN packs

\* handleRequest up to the PackageSet lookup, which packMutex.RLock() delays
\* while UpdatePacks holds the lock
HandleRequest(h, url) ==
    LET path == TrimPrefix(url, <<"/">>) IN
    /\ Alive
    /\ srv = "serving"
    /\ req[h].pc = "idle"
    /\ InvalidPath(path) \/ swap.pc = "idle"
    /\ IF InvalidPath(path)
       THEN req' = [req EXCEPT ![h] =
                [IdleReq EXCEPT !.pc = "done", !.url = url, !.path = path,
                                !.status = StatusNotFound]]
       ELSE IF ~FoundPack(path)
       THEN req' = [req EXCEPT ![h] =
                [IdleReq EXCEPT !.pc = "done", !.url = url, !.path = path,
                                !.status = StatusNotFound, !.lookups = 1]]
       ELSE req' = [req EXCEPT ![h] =
                [IdleReq EXCEPT !.pc = "cache", !.url = url, !.path = path,
                                !.pack = LookupPack(path), !.lookups = 1]]
    /\ UNCHANGED <<packs, contentCache, loaded, listener, ready, srv, startPc, startErr, panicked, waiter, mainVars, swap>>

\* the response of a handler that has the content: 200 and the bytes
Respond(r, content) ==
    [r EXCEPT !.pc = "done", !.content = content, !.status = StatusOK, !.body = content]

\* a slip of HandleCache: a read that fails leaves an empty entry in the cache
HandleCacheNegative(h) ==
    LET r == req[h] IN
    /\ Alive
    /\ r.pc = "cache"
    /\ IF r.path \in DOMAIN contentCache
       THEN /\ req' = [req EXCEPT ![h] =
                    Respond([r EXCEPT !.lookups = r.lookups + 1], contentCache[r.path])]
            /\ UNCHANGED contentCache
       ELSE \/ /\ req' = [req EXCEPT ![h] =
                        [r EXCEPT !.pc = "fill", !.content = r.pack.content,
                                  !.lookups = r.lookups + 1]]
               /\ UNCHANGED contentCache
            \/ /\ req' = [req EXCEPT ![h] =
                        [r EXCEPT !.pc = "done", !.status = StatusInternalServerError,
                                  !.lookups = r.lookups + 1]]
               /\ contentCache' = [x \in DOMAIN contentCache \cup {r.path} |->
                                    IF x = r.path THEN <<>> ELSE contentCache[x]]
    /\ UNCHANGED <<packs, loaded, listener, ready, srv, startPc, startErr, panicked, waiter, mainVars, swap>>

\* handleRequest from the cache lookup: a hit is served, a miss reads the pack
HandleCache(h) ==
    LET r == req[h] IN
    /\ Alive
    /\ r.pc = "cache"
    /\ IF r.path \in DOMAIN contentCache
       THEN req' = [req EXCEPT ![h] =
                Respond([r EXCEPT !.lookups = r.lookups + 1], contentCache[r.path])]
       ELSE \/ req' = [req EXCEPT ![h] =
                    [r EXCEPT !.pc = "fill", !.content = r.pack.content,
                              !.lookups = r.lookups + 1]]
            \/ req' = [req EXCEPT ![h] =
                    [r EXCEPT !.pc = "done", !.status = StatusInternalServerError,
                              !.lookups = r.lookups + 1]]
    /\ UNCHANGED <<packs, contentCache, loaded, listener, ready, srv, startPc, startErr, panicked, waiter, mainVars, swap>>

\* a slip of MapPut: the write lands in a map that has lost the other keys
MapPutAlone(m, k, v) == [x \in {k} |-> v]

\* the map with key k set to v
MapPut(m, k, v) == [x \in DOMAIN m \cup {k} |-> IF x = k THEN v ELSE m[x]]

\* handleRequest after a successful on-demand read: fill the cache, respond
HandleFill(h) ==
    LET r == req[h] IN
    /\ Alive
    /\ r.pc = "fill"
    /\ contentCache' = MapPut(contentCache, r.path, r.content)
    /\ req' = [req EXCEPT ![h] = Respond(r, r.content)]
    /\ UNCHANGED <<packs, loaded, listener, ready, srv, startPc, startErr, panicked, waiter, mainVars, swap>>

\* the handler returns; its goroutine serves the next request
HandleReturn(h) ==
    /\ Alive
    /\ req[h].pc = "done"
    /\ req' = [req EXCEPT ![h] = IdleReq]
    /\ UNCHANGED <<packs, contentCache, loaded, listener, ready, srv, startPc, startErr, panicked, waiter, mainVars, swap>>

\* no call of UpdatePacks holds packMutex; list is a history variable, the
\* argument of the last call that did
NoSwap == [pc |-> "idle", list |-> <<>>]

\* UpdatePacks step by step: packMutex.Lock() is taken
UpdateLock(l) ==
    /\ Alive
    /\ swap.pc = "idle"
    /\ swap' = [pc |-> "locked", list |-> l]
    /\ UNCHANGED <<serverVars, mainVars>>

\* a slip of UpdateStore: the packs are written into the map in use
UpdateStoreInPlace ==
    /\ Alive
    /\ swap.pc = "locked"
    /\ packs' = [u \in DOMAIN packs \cup DOMAIN PackMap(swap.list) |->
                    IF u \in DOMAIN PackMap(swap.list) THEN PackMap(swap.list)[u] ELSE packs[u]]
    /\ swap' = [swap EXCEPT !.pc = "idle"]
    /\ UNCHANGED <<contentCache, loaded, req, listener, ready, srv, startPc, startErr, panicked, waiter, mainVars>>

\* UpdatePacks step by step: the map built from the argument replaces
\* s.packs, and the deferred Unlock runs
UpdateStore ==
    /\ Alive
    /\ swap.pc = "locked"
    /\ packs' = PackMap(swap.list)
    /\ swap' = [swap EXCEPT !.pc = "idle"]
    /\ UNCHANGED <<contentCache, loaded, req, listener, ready, srv, startPc, startErr, panicked, waiter, mainVars>>

\* UpdatePacks as one step, which it is for every reader of s.packs: the
\* PackageSet is replaced by a freshly built map
UpdatePacks(l) ==
    /\ Alive
    /\ swap.pc = "idle"
    /\ packs' = PackMap(l)
    /\ UNCHANGED <<contentCache, loaded, req, listener, ready, srv, startPc, startErr, panicked, waiter, mainVars, swap>>

(***************************************************************************)
(* Start, WaitForReady, Close                                              *)
(***************************************************************************)

\* close(s.ready): every receiver blocked on the channel is released
Released == [w \in DOMAIN waiter |-> IF waiter[w] = "blocked" THEN "unblocked" ELSE waiter[w]]

\* a caller enters Start (any goroutine holding the server may)
StartCall ==
    /\ Alive
    /\ startPc = "none"
    /\ startPc' = "called"
    /\ startErr' = ""
    /\ UNCHANGED <<packs, contentCache, loaded, req, listener, ready, srv, panicked, waiter,
                   mainVars, swap>>

\* a slip of StartListen: the channel is closed before the result of
\* net.Listen is looked at
StartListenSignalFirst ==
    /\ Alive
    /\ startPc = "called"
    /\ ~ready
    /\ ready' = TRUE
    /\ waiter' = Released
    /\ \/ /\ listener # "bound"
          /\ listener' = "bound"
          /\ startPc' = "signaled"
          /\ UNCHANGED startErr
       \/ /\ startPc' = "none"
          /\ startErr' = "bind"
          /\ UNCHANGED listener
    /\ UNCHANGED <<packs, contentCache, loaded, req, srv, panicked, mainVars, swap>>

\* a slip of StartListen: the server serves the listener in a goroutine of
\* its own before Start closes the channel
StartListenServeFirst ==
    /\ Alive
    /\ startPc = "called"
    /\ \/ /\ listener # "bound"
          /\ listener' = "bound"
          /\ srv' = IF srv = "closed" THEN srv ELSE "serving"
          /\ startPc' = "bound"
          /\ UNCHANGED startErr
       \/ /\ startPc' = "none"
          /\ startErr' = "bind"
          /\ UNCHANGED <<listener, srv>>
    /\ UNCHANGED <<packs, contentCache, loaded, req, ready, panicked, waiter, mainVars, swap>>

\* Start: net.Listen. It fails whenever this server still holds the port and
\* may fail otherwise (another process holds it); Start then returns the
\* error, which main's goroutine logs.
StartListen ==
    /\ Alive
    /\ startPc = "called"
    /\ \/ /\ listener # "bound"
          /\ listener' = "bound"
          /\ startPc' = "bound"
          /\ UNCHANGED startErr
       \/ /\ startPc' = "none"
          /\ startErr' = "bind"
          /\ UNCHANGED listener
    /\ UNCHANGED <<packs, contentCache, loaded, req, ready, srv, panicked, waiter, mainVars, swap>>

\* Start: close(s.ready). Closing a closed channel panics.
StartSignal ==
    /\ Alive
    /\ startPc = "bound"
    /\ IF ready
       THEN /\ panicked' = TRUE
            /\ UNCHANGED <<ready, waiter, startPc>>
       ELSE /\ ready' = TRUE
            /\ waiter' = Released
            /\ startPc' = "signaled"
            /\ UNCHANGED panicked
    /\ UNCHANGED <<packs, contentCache, loaded, req, listener, srv, startErr, mainVars, swap>>

\* a slip of StartServe: Serve does not look at whether the server was closed
StartServeReopen ==
    /\ Alive
    /\ startPc = "signaled"
    /\ srv' = "serving"
    /\ startPc' = "serving"
    /\ UNCHANGED <<listener, startErr>>
    /\ UNCHANGED <<packs, contentCache, loaded, req, ready, panicked, waiter, mainVars, swap>>

\* Start: s.server.Serve(listener). A server that was closed returns
\* ErrServerClosed at once and closes the listener.
StartServe ==
    /\ Alive
    /\ startPc = "signaled"
    /\ IF srv = "closed"
       THEN /\ listener' = "closed"
            /\ startPc' = "none"
            /\ startErr' = "closed"
            /\ UNCHANGED srv
       ELSE /\ srv' = "serving"
            /\ startPc' = "serving"
            /\ UNCHANGED <<listener, startErr>>
    /\ UNCHANGED <<packs, contentCache, loaded, req, ready, panicked, waiter, mainVars, swap>>

\* the effect of s.server.Close(): the listeners Serve registered are closed
\* and a running Serve returns ErrServerClosed
CloseServer ==
    /\ srv' = "closed"
    /\ IF startPc = "serving"
       THEN listener' = "closed" /\ startPc' = "none" /\ startErr' = "closed"
       ELSE UNCHANGED <<listener, startPc, startErr>>

\* Close
Close ==
    /\ Alive
    /\ CloseServer
    /\ UNCHANGED <<packs, contentCache, loaded, req, ready, panicked, waiter, mainVars, swap>>

\* the number of goroutines that call WaitForReady
NumWaiters == 3

Waiters == 1..NumWaiters

\* WaitForReady: <-s.ready returns at once on a closed channel, blocks otherwise
WaitForReady(w) ==
    /\ Alive
    /\ waiter[w] = "idle"
    /\ waiter' = [waiter EXCEPT ![w] = IF ready THEN "immediate" ELSE "blocked"]
    /\ UNCHANGED <<packs, contentCache, loaded, req, listener, ready, srv, startPc, startErr, panicked, mainVars, swap>>

\* the caller of WaitForReady goes on
WaitReturn(w) ==
    /\ Alive
    /\ waiter[w] \in {"unblocked", "immediate"}
    /\ waiter' = [waiter EXCEPT ![w] = "idle"]
    /\ UNCHANGED <<packs, contentCache, loaded, req, listener, ready, srv, startPc, startErr, panicked, mainVars, swap>>

(***************************************************************************)
(* Configuration and main                                                  *)
(***************************************************************************)

\* the goroutine of main, as a caller of WaitForReady
MainWaiter == 1

Lobby == <<"l", "o">>
Island == <<"i", "s">>
Addr1 == <<"1">>
Addr2 == <<"2">>

\* conf.Servers: the default configuration, one without the default server,
\* one whose second server has an empty address
ServersDefault == <<[name |-> Lobby, addr |-> Addr1], [name |-> Island, addr |-> Addr2]>>
ServersNoLobby == <<[name |-> Island, addr |-> Addr2]>>
ServersEmptyAddr == <<[name |-> Lobby, addr |-> Addr1], [name |-> Island, addr |-> <<>>]>>

\* conf.DefaultServer
DefaultServer == Lobby

\* the configurations main is run with; tty tells whether processCommand
\* finds a terminal (not in a container, /dev/tty opens)
Confs ==
    [cdnEnabled : BOOLEAN,
     packs : {<<>>, <<PackA, PackB>>},
     servers : {ServersDefault, ServersNoLobby, ServersEmptyAddr},
     tty : BOOLEAN]

\* serverMap after the loop of main over conf.Servers
ServerMapOf(servers) ==
    [n \in {servers[i].name : i \in 1..Len(servers)} |->
        servers[CHOOSE i \in 1..Len(servers) :
            /\ servers[i].name = n
            /\ \A j \in (i + 1)..Len(servers) : servers[j].name # n].addr]

\* lobbyServerAddress after that loop: "" when no server has the default name
LobbyAddress(servers) ==
    IF DefaultServer \in DOMAIN ServerMapOf(servers)
    THEN ServerMapOf(servers)[DefaultServer]
    ELSE <<>>

\* baseURL of main, "http://<ip>:<port>"
BaseURL == <<"h", "t", "t", "p", ":", "/", "/", "i", "p", ":", "8">>

\* the UUID in the manifest of the pack the bytes hold
ManifestUUID(bytes) == (CHOOSE p \in Pack : p.content = bytes).uuid

\* the request path of a URL of the distribution server
URLPath(url) == TrimPrefix(url, BaseURL)

\* the distribution server answers a GET of the URL with 200
Served(url) ==
    LET path == TrimPrefix(URLPath(url), <<"/">>) IN
    ~InvalidPath(path) /\ FoundPack(path)

\* the body of that answer: the cached bytes, else the bytes read on demand
ServedBytes(url) ==
    LET path == TrimPrefix(URLPath(url), <<"/">>) IN
    IF path \in DOMAIN contentCache THEN contentCache[path] ELSE LookupPack(path).content

\* resource.MustReadURL: the pack compiled from the downloaded bytes, which
\* remembers the URL it came from
MustReadURL(url) ==
    LET bytes == ServedBytes(url) IN
    [uuid |-> ManifestUUID(bytes), content |-> bytes, url |-> url]

\* a slip of ModifyResourcePackForCDN: the packs are appended to a slice
\* made with length len(packs)
ModifyResourcePackForCDNAppend(list, baseURL) ==
    [i \in 1..Len(list) |-> NoPack]
        \o [i \in 1..Len(list) |-> MustReadURL(baseURL \o <<"/">> \o list[i].uuid)]

\* ModifyResourcePackForCDN: one URL-backed pack per pack, in order
ModifyResourcePackForCDN(list, baseURL) ==
    [i \in 1..Len(list) |-> MustReadURL(baseURL \o <<"/">> \o list[i].uuid)]

\* the content cache after the distribution server has answered the GETs of
\* ModifyResourcePackForCDN: a pack not yet cached has been read on demand
CacheAfterFetch(list, baseURL) ==
    [u \in DOMAIN contentCache \cup {list[i].uuid : i \in 1..Len(list)} |->
        IF u \in DOMAIN contentCache THEN contentCache[u] ELSE LookupPack(u).content]

\* main: the loop over conf.Servers and the test for the default server
MainLoadServers ==
    /\ Alive
    /\ mainPc = "start"
    /\ serverMap' = ServerMapOf(conf.servers)
    /\ IF LobbyAddress(conf.servers) = <<>>
       THEN exit' = "return" /\ UNCHANGED mainPc
       ELSE mainPc' = "parse" /\ UNCHANGED exit
    /\ UNCHANGED <<serverVars, conf, rps, rewrite, mainPacks, engine, sessions, consolePc,
                   hist, cur, out>>
    /\ UNCHANGED <<store, comp, swap>>

\* main: parse reads the pack directory, then the branch on the CDN setting
MainParse ==
    /\ Alive
    /\ mainPc = "parse"
    /\ \/ /\ exit' = "return"
          /\ UNCHANGED <<mainPc, mainPacks>>
       \/ /\ mainPacks' = conf.packs
          /\ mainPc' = IF conf.cdnEnabled /\ Len(conf.packs) > 0 THEN "newServer" ELSE "listen"
          /\ UNCHANGED exit
    /\ UNCHANGED <<serverVars, conf, serverMap, rps, rewrite, engine, sessions, consolePc,
                   hist, cur, out>>
    /\ UNCHANGED <<store, comp, swap>>

\* main: NewResourcePackServer loads the cache; any read may fail
MainNewServer ==
    /\ Alive
    /\ mainPc = "newServer"
    /\ \/ /\ exit' = "return"
          /\ UNCHANGED <<packs, contentCache, loaded, rps, mainPc>>
       \/ /\ \E ok \in SUBSET (1..Len(mainPacks)) :
                /\ packs' = PackMap(mainPacks)
                /\ contentCache' = LoadCache(mainPacks, ok)
                /\ loaded' = [u \in {mainPacks[i].uuid : i \in ok} |->
                                LastRead(mainPacks, ok, u)]
          /\ rps' = TRUE
          /\ mainPc' = "goStart"
          /\ UNCHANGED exit
    /\ UNCHANGED <<req, listener, ready, srv, startPc, startErr, panicked, waiter, conf,
                   serverMap, rewrite, mainPacks, engine, sessions, consolePc, hist, cur, out>>
    /\ UNCHANGED <<store, comp, swap>>

\* a slip of MainGoStart: main does not wait for the server to be ready
MainGoStartNoWait ==
    /\ Alive
    /\ mainPc = "goStart"
    /\ startPc' = "called"
    /\ mainPc' = "rewrite"
    /\ UNCHANGED <<packs, contentCache, loaded, req, listener, ready, srv, startErr, panicked,
                   waiter, conf, serverMap, rps, rewrite, mainPacks, engine, sessions,
                   consolePc, hist, cur, out, exit>>
    /\ UNCHANGED <<store, comp, swap>>

\* main: go resourcePackServer.Start()
MainGoStart ==
    /\ Alive
    /\ mainPc = "goStart"
    /\ startPc' = "called"
    /\ mainPc' = "wait"
    /\ UNCHANGED <<packs, contentCache, loaded, req, listener, ready, srv, startErr, panicked,
                   waiter, conf, serverMap, rps, rewrite, mainPacks, engine, sessions,
                   consolePc, hist, cur, out, exit>>
    /\ UNCHANGED <<store, comp, swap>>

\* main: resourcePackServer.WaitForReady()
MainWaitForReady ==
    /\ Alive
    /\ mainPc = "wait"
    /\ waiter[MainWaiter] = "idle"
    /\ waiter' = [waiter EXCEPT ![MainWaiter] = IF ready THEN "immediate" ELSE "blocked"]
    /\ mainPc' = "waiting"
    /\ UNCHANGED <<packs, contentCache, loaded, req, listener, ready, srv, startPc, startErr,
                   panicked, conf, serverMap, rps, rewrite, mainPacks, engine, sessions,
                   consolePc, hist, cur, out, exit>>
    /\ UNCHANGED <<store, comp, swap>>

\* main: WaitForReady has returned
MainReady ==
    /\ Alive
    /\ mainPc = "waiting"
    /\ waiter[MainWaiter] \in {"unblocked", "immediate"}
    /\ waiter' = [waiter EXCEPT ![MainWaiter] = "idle"]
    /\ mainPc' = "rewrite"
    /\ UNCHANGED <<packs, contentCache, loaded, req, listener, ready, srv, startPc, startErr,
                   panicked, conf, serverMap, rps, rewrite, mainPacks, engine, sessions,
                   consolePc, hist, cur, out, exit>>
    /\ UNCHANGED <<store, comp, swap>>

\* main stays in WaitForReady after Start returned the bind error: nothing
\* closes the channel any more. The process hangs there, or, if no other
\* goroutine can run, the Go runtime ends it ("all goroutines are asleep").
MainDeadlock ==
    /\ Alive
    /\ mainPc = "waiting"
    /\ waiter[MainWaiter] = "blocked"
    /\ startPc = "none"
    /\ startErr = "bind"
    /\ exit' = "deadlock"
    /\ UNCHANGED <<serverVars, conf, mainPc, serverMap, rps, rewrite, mainPacks, engine,
                   sessions, consolePc, hist, cur, out>>
    /\ UNCHANGED <<store, comp, swap>>

\* main: ModifyResourcePackForCDN is called
MainRewrite ==
    /\ Alive
    /\ mainPc = "rewrite"
    /\ rewrite' = "invoked"
    /\ mainPc' = "rewriting"
    /\ UNCHANGED <<serverVars, conf, serverMap, rps, mainPacks, engine, sessions, consolePc,
                   hist, cur, out, exit>>
    /\ UNCHANGED <<store, comp, swap>>

\* main: ModifyResourcePackForCDN returns the URL-backed packs once the
\* distribution server has answered every GET of resource.MustReadURL, filling
\* its cache on the way; a fetch that fails (a read on demand that fails, a
\* connection that fails) panics
MainRewritten ==
    /\ Alive
    /\ mainPc = "rewriting"
    /\ \/ /\ srv = "serving"
          /\ \A i \in 1..Len(mainPacks) : Served(BaseURL \o <<"/">> \o mainPacks[i].uuid)
          /\ mainPacks' = ModifyResourcePackForCDN(mainPacks, BaseURL)
          /\ contentCache' = CacheAfterFetch(mainPacks, BaseURL)
          /\ rewrite' = "done"
          /\ mainPc' = "listen"
          /\ UNCHANGED panicked
       \/ /\ panicked' = TRUE
          /\ UNCHANGED <<mainPacks, contentCache, rewrite, mainPc>>
    /\ UNCHANGED <<packs, loaded, req, listener, ready, srv, startPc, startErr,
                   waiter, conf, serverMap, rps, engine, sessions, consolePc, hist, cur, out,
                   exit>>
    /\ UNCHANGED <<store, comp, swap>>

\* main: proxy.Listen; on success main starts processCommand and accepts
MainListen ==
    /\ Alive
    /\ mainPc = "listen"
    /\ \/ /\ exit' = "return"
          /\ UNCHANGED <<engine, mainPc, consolePc>>
       \/ /\ engine' = "listening"
          /\ mainPc' = "accept"
          /\ consolePc' = "init"
          /\ UNCHANGED exit
    /\ UNCHANGED <<serverVars, conf, serverMap, rps, rewrite, mainPacks, sessions, hist, cur,
                   out>>
    /\ UNCHANGED <<store, comp, swap>>

SessAl == <<"A", "l">>
SessBo == <<"B", "o">>

\* the display names of the players that connect
Players == {SessAl, SessBo}

\* the engine's registry gains a session
SessionJoin(n) ==
    /\ Alive
    /\ engine = "listening"
    /\ n \notin sessions
    /\ sessions' = sessions \cup {n}
    /\ UNCHANGED <<serverVars, conf, mainPc, serverMap, rps, rewrite, mainPacks, engine,
                   consolePc, hist, cur, out, exit>>
    /\ UNCHANGED <<store, comp, swap>>

\* the engine's registry loses a session
SessionLeave(n) ==
    /\ Alive
    /\ engine = "listening"
    /\ n \in sessions
    /\ sessions' = sessions \ {n}
    /\ UNCHANGED <<serverVars, conf, mainPc, serverMap, rps, rewrite, mainPacks, engine,
                   consolePc, hist, cur, out, exit>>
    /\ UNCHANGED <<store, comp, swap>>

(***************************************************************************)
(* The console                                                             *)
(***************************************************************************)

CmdPlayers == <<"p", "l", "a", "y", "e", "r", "s">>
CmdTransfer == <<"t", "r", "a", "n", "s", "f", "e", "r">>
CmdInfo == <<"i", "n", "f", "o">>
CmdStop == <<"s", "t", "o", "p">>
CmdEnd == <<"e", "n", "d">>
CmdExit == <<"e", "x", "i", "t">>
CmdHelp == <<"h", "e", "l", "p">>

\* the words typed as arguments of transfer
PlayerArgs == {SessAl, <<"a", "l">>, SessBo}
ServerArgs == {Lobby, <<"L", "o">>, Island}

\* the lines the operator submits
ConsoleLines ==
    {Join(<<CmdTransfer, p, n>>, <<" ">>) : p \in PlayerArgs, n \in ServerArgs}
    \cup {Join(<<CmdTransfer, SessAl, Lobby, w>>, <<" ">>) : w \in {Island, <<"x">>}}
    \cup {Join(<<CmdTransfer, p>>, <<" ">>) : p \in PlayerArgs}
    \cup {CmdTransfer, CmdPlayers, CmdInfo, CmdStop, CmdEnd, CmdExit, CmdHelp}
    \cup {<<>>, <<" ", "\t">>,
          <<" ">> \o CmdStop \o <<" ">>,
          <<"\t">> \o CmdTransfer \o <<" ", " ">> \o SessBo \o <<"\t">> \o Island \o <<" ">>}

\* no HistoryFile: NewHistoryFile failed, or there is no console
NoHist == [exists |-> FALSE, last |-> <<>>, synced |-> TRUE, failed |-> FALSE, calls |-> 0]

\* the HistoryFile as NewHistoryFile leaves it, seen through its last entry:
\* synced tells whether the file holds the entries in memory (the file loaded
\* is taken to hold at most maxSize lines, none blank), failed whether the
\* last Save returned an error, calls how often Append was called for the line
\* the executor took last
LoadedHists ==
    {[exists |-> TRUE, last |-> <<>>, synced |-> TRUE, failed |-> FALSE, calls |-> 0],
     [exists |-> TRUE, last |-> CmdStop, synced |-> TRUE, failed |-> FALSE, calls |-> 0]}

\* HistoryFile.Save, which succeeds or not
SaveHist(h, ok) == IF h.exists THEN [h EXCEPT !.synced = ok, !.failed = ~ok] ELSE h

\* the executor's historyFile.Append(in): nothing for a repeat of the last
\* entry, else the entry is added and the file saved
AppendHist(h, cmd, ok) ==
    IF ~h.exists THEN h
    ELSE IF h.last = cmd THEN [h EXCEPT !.calls = h.calls + 1]
    ELSE SaveHist([h EXCEPT !.last = cmd, !.calls = h.calls + 1], ok)

NoCall == [player |-> <<>>, addr |-> <<>>]

NoOut == [args |-> <<>>, report |-> "", transfer |-> NoCall, lookups |-> 0]

Outcome(args, report, lookups) ==
    [args |-> args, report |-> report, transfer |-> NoCall, lookups |-> lookups]

ToLower(c) ==
    CASE c = "A" -> "a"
      [] c = "B" -> "b"
      [] c = "L" -> "l"
      [] OTHER -> c

\* strings.EqualFold
EqualFold(a, b) ==
    /\ Len(a) = Len(b)
    /\ \A i \in 1..Len(a) : ToLower(a[i]) = ToLower(b[i])

\* a slip of SessionMatches: the names are compared ignoring case
SessionMatchesFold(displayName, playerName) == EqualFold(displayName, playerName)

\* s.Client().IdentityData().DisplayName == playerName
SessionMatches(displayName, playerName) == displayName = playerName

\* the loop of handleCommand over serverMap: the address of the entry named
\* serverName, "" when there is none
ServerAddr(smap, serverName) ==
    LET named == {n \in DOMAIN smap : n = serverName} IN
    IF named = {} THEN <<>> ELSE smap[CHOOSE n \in named : TRUE]

\* what case "transfer" does once it has its arguments
TransferLookups(args, sess, smap, err) ==
    LET playerName == args[2]
        serverName == args[3]
        found == {n \in sess : SessionMatches(n, playerName)}
        serverAddr == ServerAddr(smap, serverName)
    IN  IF found = {} THEN Outcome(args, "player not found", 1)
        ELSE IF serverAddr = <<>> THEN Outcome(args, "server not found", 2)
        ELSE [args |-> args,
              report |-> IF err THEN "transfer failed" ELSE "transferred",
              transfer |-> [player |-> CHOOSE n \in found : TRUE, addr |-> serverAddr],
              lookups |-> 2]

\* a slip of HandleTransfer: the session is looked up before the arguments
\* are counted
HandleTransferLookupFirst(args, sess, smap, err) ==
    IF Len(args) < 3 THEN Outcome(args, "usage", 1)
    ELSE TransferLookups(args, sess, smap, err)

\* handleCommand, case "transfer"; err tells whether TransferTimeout fails
HandleTransfer(args, sess, smap, err) ==
    IF Len(args) < 3 THEN Outcome(args, "usage", 0)
    ELSE TransferLookups(args, sess, smap, err)

\* handleCommand: nothing for a line without a token, else the switch on
\* args[0]
Dispatch(args, sess, smap, err) ==
    IF args = <<>> THEN Outcome(args, "", 0) ELSE
    CASE args[1] = CmdPlayers ->
            Outcome(args, IF sess = {} THEN "no players" ELSE "players", 1)
      [] args[1] = CmdTransfer -> HandleTransfer(args, sess, smap, err)
      [] args[1] = CmdInfo -> Outcome(args, "info", 2)
      [] args[1] \in {CmdStop, CmdEnd} -> Outcome(args, "stopped", 0)
      [] OTHER -> Outcome(args, "unknown command", 0)

\* processCommand up to p.Run(): without a terminal it only installs
\* handleTermination; with one it opens the history, which may fail
ProcessCommandInit ==
    /\ Alive
    /\ consolePc = "init"
    /\ IF conf.tty
       THEN /\ consolePc' = "prompt"
            /\ hist' \in LoadedHists \cup {NoHist}
       ELSE /\ consolePc' = "signal"
            /\ UNCHANGED hist
    /\ UNCHANGED <<serverVars, conf, mainPc, serverMap, rps, rewrite, mainPacks, engine,
                   sessions, cur, out, exit>>
    /\ UNCHANGED <<store, comp, swap>>

\* a slip of Executor: the line is not trimmed before the test
ExecutorNoTrim(line) ==
    LET in == line IN
    /\ Alive
    /\ consolePc = "prompt"
    /\ IF in # <<>>
       THEN /\ \E ok \in BOOLEAN : hist' = AppendHist([hist EXCEPT !.calls = 0], in, ok)
            /\ cur' = in
            /\ consolePc' = "dispatch"
       ELSE UNCHANGED <<hist, cur, consolePc>>
    /\ UNCHANGED <<serverVars, conf, mainPc, serverMap, rps, rewrite, mainPacks, engine,
                   sessions, out, exit>>
    /\ UNCHANGED <<store, comp, swap>>

\* a slip of Executor: it returns when Append fails
ExecutorReturnOnError(line) ==
    LET in == TrimSpace(line) IN
    /\ Alive
    /\ consolePc = "prompt"
    /\ IF in # <<>>
       THEN \E ok \in BOOLEAN :
                /\ hist' = AppendHist([hist EXCEPT !.calls = 0], in, ok)
                /\ IF hist'.failed
                   THEN UNCHANGED <<cur, consolePc>>
                   ELSE cur' = in /\ consolePc' = "dispatch"
       ELSE UNCHANGED <<hist, cur, consolePc>>
    /\ UNCHANGED <<serverVars, conf, mainPc, serverMap, rps, rewrite, mainPacks, engine,
                   sessions, out, exit>>
    /\ UNCHANGED <<store, comp, swap>>

\* the executor: a line that is not blank is appended to the history and
\* then handed to handleCommand
Executor(line) ==
    LET in == TrimSpace(line) IN
    /\ Alive
    /\ consolePc = "prompt"
    /\ IF in # <<>>
       THEN /\ \E ok \in BOOLEAN : hist' = AppendHist([hist EXCEPT !.calls = 0], in, ok)
            /\ cur' = in
            /\ consolePc' = "dispatch"
       ELSE UNCHANGED <<hist, cur, consolePc>>
    /\ UNCHANGED <<serverVars, conf, mainPc, serverMap, rps, rewrite, mainPacks, engine,
                   sessions, out, exit>>
    /\ UNCHANGED <<store, comp, swap>>

\* proxy.Close(): the engine disconnects its sessions with the shutdown
\* message and stops listening
ProxyClose ==
    /\ engine' = "closed"
    /\ sessions' = {}

\* handleCommand on the line the executor accepted
HandleCommand ==
    /\ Alive
    /\ consolePc = "dispatch"
    /\ \E err \in BOOLEAN :
        LET o == Dispatch(Fields(cur), sessions, serverMap, err) IN
        /\ out' = o
        /\ IF o.report = "stopped"
           THEN /\ IF rps THEN CloseServer ELSE UNCHANGED <<srv, listener, startPc, startErr>>
                /\ ProxyClose
                /\ exit' = "stop"
                /\ UNCHANGED consolePc
           ELSE /\ consolePc' = "prompt"
                /\ UNCHANGED <<srv, listener, startPc, startErr, engine, sessions, exit>>
    /\ UNCHANGED <<packs, contentCache, loaded, req, ready, panicked, waiter, conf, mainPc,
                   serverMap, rps, rewrite, mainPacks, hist, cur>>
    /\ UNCHANGED <<store, comp, swap>>

\* the ControlC key binding of the prompt
ControlC ==
    /\ Alive
    /\ consolePc = "prompt"
    /\ \E ok \in BOOLEAN : hist' = SaveHist(hist, ok)
    /\ ProxyClose
    /\ exit' = "ctrlc"
    /\ UNCHANGED <<serverVars, conf, mainPc, serverMap, rps, rewrite, mainPacks, consolePc,
                   cur, out>>
    /\ UNCHANGED <<store, comp, swap>>

\* the goroutine of handleTermination receives os.Interrupt
Interrupt ==
    /\ Alive
    /\ consolePc = "signal"
    /\ sessions' = {}
    /\ exit' = "signal"
    /\ UNCHANGED <<serverVars, conf, mainPc, serverMap, rps, rewrite, mainPacks, engine,
                   consolePc, hist, cur, out>>
    /\ UNCHANGED <<store, comp, swap>>

(***************************************************************************)
(* The completer                                                           *)
(***************************************************************************)

LowerLetters ==
    <<"a", "b", "c", "d", "e", "f", "g", "h", "i", "j", "k", "l", "m",
      "n", "o", "p", "q", "r", "s", "t", "u", "v", "w", "x", "y", "z">>
UpperLetters ==
    <<"A", "B", "C", "D", "E", "F", "G", "H", "I", "J", "K", "L", "M",
      "N", "O", "P", "Q", "R", "S", "T", "U", "V", "W", "X", "Y", "Z">>

\* strings.ToUpper, character by character
ToUpper(str) ==
    [i \in 1..Len(str) |->
        IF \E k \in 1..Len(LowerLetters) : LowerLetters[k] = str[i]
        THEN UpperLetters[CHOOSE k \in 1..Len(LowerLetters) : LowerLetters[k] = str[i]]
        ELSE str[i]]

RECURSIVE SplitAcc(_, _, _)
SplitAcc(str, part, acc) ==
    IF str = <<>> THEN Append(acc, part)
    ELSE IF Head(str) = " " THEN SplitAcc(Tail(str), <<>>, Append(acc, part))
    ELSE SplitAcc(Tail(str), Append(part, Head(str)), acc)

\* strings.Split(str, " "): one more part than there are spaces
Split(str) == SplitAcc(str, <<>>, <<>>)

\* Document.GetWordBeforeCursor: the text after the last space
GetWordBeforeCursor(text) ==
    LET spaces == {i \in 1..Len(text) : text[i] = " "}
        start == IF spaces = {} THEN 0 ELSE CHOOSE i \in spaces : \A j \in spaces : j <= i
    IN  SubSeq(text, start + 1, Len(text))

Suggest(text, description) == [text |-> text, description |-> description]

\* a slip of FilterHasPrefix: the case of the letters counts
FilterHasPrefixExact(suggestions, sub, ignoreCase) ==
    LET Keep(c) == HasPrefix(c.text, sub) IN
    IF sub = <<>> THEN suggestions ELSE SelectSeq(suggestions, Keep)

\* prompt.FilterHasPrefix: all suggestions for an empty sub, else those whose
\* text starts with sub, in their order; with ignoreCase both are upper-cased
FilterHasPrefix(suggestions, sub, ignoreCase) ==
    LET Keep(c) ==
            IF ignoreCase THEN HasPrefix(ToUpper(c.text), ToUpper(sub))
            ELSE HasPrefix(c.text, sub)
    IN  IF sub = <<>> THEN suggestions ELSE SelectSeq(suggestions, Keep)

\* the vocabulary of completeCommand, in its declared order
Commands ==
    << Suggest(CmdPlayers, "List all connected players"),
       Suggest(CmdTransfer, "Transfer a player to another server"),
       Suggest(CmdInfo, "Show server information"),
       Suggest(CmdStop, "Stop the server"),
       Suggest(CmdExit, "Stop the server") >>

completeCommand(input) == FilterHasPrefix(Commands, input, TRUE)

\* completePlayerNames, where names are the display names of GetSessions() in
\* the order the registry returns them
completePlayerNames(input, names) ==
    FilterHasPrefix([i \in 1..Len(names) |-> Suggest(names[i], "Connected player")],
                    input, TRUE)

\* completeServerNames, where names are the keys of serverMap in the order
\* the range loop visits them
completeServerNames(input, names) ==
    FilterHasPrefix([i \in 1..Len(names) |-> Suggest(names[i], "Available server")],
                    input, TRUE)

NoSuggest == [sugg |-> <<>>, start |-> 0, end |-> 0]

\* Completer.Complete on the text before the cursor
Complete(text, playerNames, serverNames) ==
    LET endIndex == Len(text)
        w == GetWordBeforeCursor(text)
        startIndex == endIndex - Len(w)
        args == Split(text)
        Span(sugg) == [sugg |-> sugg, start |-> startIndex, end |-> endIndex]
    IN  IF w = <<>> THEN NoSuggest
        ELSE IF Len(args) <= 1 THEN Span(completeCommand(args[1]))
        ELSE IF args[1] = CmdTransfer /\ Len(args) = 2
             THEN Span(completePlayerNames(args[2], playerNames))
        ELSE IF args[1] = CmdTransfer /\ Len(args) = 3
             THEN Span(completeServerNames(args[3], serverNames))
        ELSE NoSuggest

\* no call of Complete yet; seen and before are history variables, the
\* sessions connected at the last call of Complete and at the call before it
NoComp ==
    [text |-> <<>>, sugg |-> <<>>, start |-> 0, end |-> 0, calls |-> 0, seen |-> {},
     before |-> {}]

\* the orderings of a finite set
Orderings(S) ==
    {q \in [1..Cardinality(S) -> S] : \A i, j \in 1..Cardinality(S) : i # j => q[i] # q[j]}

\* the texts before the cursor for which the prompt asks for completions
CompTexts ==
    { <<>>, <<"t">>, <<"t", "r", "a", "n", "s">>, <<"T", "R">>, <<"s">>, <<"e">>, <<"x">>,
      <<"I">>, <<" ", "t">>, CmdTransfer, CmdTransfer \o <<" ">>,
      Join(<<CmdTransfer, <<"a">>>>, <<" ">>),
      Join(<<CmdTransfer, <<"A", "l">>>>, <<" ">>),
      Join(<<CmdTransfer, <<"B">>>>, <<" ">>),
      Join(<<CmdTransfer, <<"x">>>>, <<" ">>),
      Join(<<<<"T", "r", "a", "n", "s", "f", "e", "r">>, <<"a">>>>, <<" ">>),
      Join(<<CmdTransfer, SessAl, <<>>>>, <<" ">>),
      Join(<<CmdTransfer, SessAl, <<"l">>>>, <<" ">>),
      Join(<<CmdTransfer, SessAl, <<"I", "S">>>>, <<" ">>),
      Join(<<CmdTransfer, SessAl, <<"x">>>>, <<" ">>),
      Join(<<CmdTransfer, SessAl, Lobby, <<"i">>>>, <<" ">>),
      Join(<<CmdTransfer, <<>>, <<"l">>>>, <<" ">>),
      Join(<<CmdPlayers, <<"a">>>>, <<" ">>),
      Join(<<CmdInfo, <<"l">>>>, <<" ">>),
      Join(<<CmdStop, <<"a">>>>, <<" ">>) }

\* the number of calls of Complete in one run
MaxCompletions == 3

\* a slip of GetSessions: the sessions of the first call are kept
GetSessionsMemo == IF comp.calls = 0 THEN sessions ELSE comp.seen

\* p.Registry().GetSessions(), as display names
GetSessions == sessions

\* the prompt calls c.Complete for the text before the cursor
CompleteCall(text) ==
    /\ Alive
    /\ consolePc = "prompt"
    /\ comp.calls < MaxCompletions
    /\ \E playerNames \in Orderings(GetSessions) : \E serverNames \in Orderings(DOMAIN serverMap) :
        LET r == Complete(text, playerNames, serverNames) IN
        comp' = [text |-> text, sugg |-> r.sugg, start |-> r.start, end |-> r.end,
                 calls |-> comp.calls + 1, seen |-> sessions, before |-> comp.seen]
    /\ UNCHANGED <<serverVars, progVars, store, swap>>

(***************************************************************************)
(* The history store: a HistoryFile and its file                           *)
(***************************************************************************)

\* maxSize of the stores built here (processCommand passes 100)
MaxSize == 2

\* a slip of LastN: the first n elements are kept
FirstN(s, n) == IF Len(s) > n THEN SubSeq(s, 1, n) ELSE s

\* the last n elements of s: s[len(s)-n:] when len(s) > n
LastN(s, n) == IF Len(s) > n THEN SubSeq(s, Len(s) - n + 1, Len(s)) ELSE s

\* bufio.ScanLines drops one trailing carriage return of a line
DropCR(line) ==
    IF line # <<>> /\ line[Len(line)] = "\r" THEN SubSeq(line, 1, Len(line) - 1) ELSE line

RECURSIVE ScanAcc(_, _, _)
ScanAcc(f, line, acc) ==
    IF f = <<>> THEN (IF line = <<>> THEN acc ELSE Append(acc, DropCR(line)))
    ELSE IF Head(f) = "\n" THEN ScanAcc(Tail(f), <<>>, Append(acc, DropCR(line)))
    ELSE ScanAcc(Tail(f), Append(line, Head(f)), acc)

\* the lines scanner.Scan yields for the bytes f: split at newlines, a last
\* line without a newline included
ScanLines(f) == ScanAcc(f, <<>>, <<>>)

\* a slip of HistoryLoad: the lines are not cut to maxSize
HistoryLoadUncut(f, maxSize) ==
    LET lines == ScanLines(f)
        trimmed == [i \in 1..Len(lines) |-> TrimSpace(lines[i])]
        IsEntry(l) == l # <<>>
    IN  SelectSeq(trimmed, IsEntry)

\* Load: the trimmed non-blank lines of the file, the last maxSize of them
HistoryLoad(f, maxSize) ==
    LET lines == ScanLines(f)
        trimmed == [i \in 1..Len(lines) |-> TrimSpace(lines[i])]
        IsEntry(l) == l # <<>>
    IN  LastN(SelectSeq(trimmed, IsEntry), maxSize)

RECURSIVE WriteLines(_)
\* what Save writes for the entries h: each followed by a newline
WriteLines(h) == IF h = <<>> THEN <<>> ELSE Head(h) \o <<"\n">> \o WriteLines(Tail(h))

\* no HistoryFile (NewHistoryFile returned nil). The fields op, arg, log,
\* loaded and saved are history variables: the last operation and the
\* argument of the last Append, the trimmed non-blank commands handed to
\* Append so far, the entries Load left, and the entries the run before had
\* in memory when its last Save returned nil
NoStore ==
    [exists |-> FALSE, maxSize |-> 0, history |-> <<>>, onDisk |-> FALSE, file |-> <<>>,
     err |-> FALSE, op |-> "none", arg |-> <<>>, log |-> <<>>, loaded |-> <<>>,
     saved |-> <<>>]

\* NewHistoryFile with the file f on disk (onDisk tells whether there is
\* one): a missing file gives an empty history; fails tells whether the home
\* directory, the mkdir or the read of an existing file fails
NewHistoryFile(onDisk, f, maxSize, fails) ==
    IF fails
    THEN [NoStore EXCEPT !.onDisk = onDisk, !.file = f]
    ELSE [NoStore EXCEPT !.exists = TRUE, !.maxSize = maxSize,
                         !.history = IF onDisk THEN HistoryLoad(f, maxSize) ELSE <<>>,
                         !.loaded = IF onDisk THEN HistoryLoad(f, maxSize) ELSE <<>>,
                         !.onDisk = onDisk, !.file = f, !.op = "new"]

\* how a Save can end: o.create tells whether os.Create succeeded (it
\* truncates the file), o.ok whether Save returned nil, o.n how many entries
\* had reached the file when a write or the flush failed
SaveOutcomes(st) ==
    {[create |-> TRUE, n |-> st.maxSize, ok |-> TRUE],
     [create |-> FALSE, n |-> 0, ok |-> FALSE]}
    \cup {[create |-> TRUE, n |-> k, ok |-> FALSE] : k \in 0..st.maxSize}

\* Save with the outcome o
HistorySave(st, o) ==
    LET n == IF o.ok \/ o.n > Len(st.history) THEN Len(st.history) ELSE o.n IN
    [st EXCEPT !.onDisk = st.onDisk \/ o.create,
               !.file = IF o.create THEN WriteLines(SubSeq(st.history, 1, n)) ELSE st.file,
               !.err = ~o.ok]

\* a slip of HistoryAppend: the test against the last entry is missing
HistoryAppendNoDedup(st, cmd, o) ==
    LET c == TrimSpace(cmd) IN
    IF c = <<>> THEN [st EXCEPT !.err = FALSE]
    ELSE HistorySave([st EXCEPT !.history = LastN(Append(st.history, c), st.maxSize)], o)

\* Append: nothing for a blank command or a repeat of the last entry; else
\* the entry is added, the oldest entries beyond maxSize dropped, and Save
\* called with the outcome o
HistoryAppend(st, cmd, o) ==
    LET c == TrimSpace(cmd) IN
    IF c = <<>> THEN [st EXCEPT !.err = FALSE]
    ELSE IF st.history # <<>> /\ st.history[Len(st.history)] = c THEN [st EXCEPT !.err = FALSE]
    ELSE HistorySave([st EXCEPT !.history = LastN(Append(st.history, c), st.maxSize)], o)

\* the commands typed, and the arguments handed to Append
HistCmdA == <<"a">>
HistCmdB == <<"b">>
HistCmdC == <<"c">>
RawCmds == {HistCmdA, HistCmdB, HistCmdC, <<" ", "a", "\t">>, <<>>, <<" ">>}

\* a file of maxSize + 2 entries, a and b in turn
LongHistory == [i \in 1..(MaxSize + 2) |-> IF i % 2 = 1 THEN HistCmdA ELSE HistCmdB]

\* the bytes of command_history.txt found at start: empty, one entry, more
\* entries than maxSize, the same entry twice, the same entry twice around a
\* blank line, and a file with a blank line, an indented line and no final
\* newline
HistFiles ==
    { <<>>,
      WriteLines(<<HistCmdA>>),
      WriteLines(LongHistory),
      WriteLines(<<HistCmdC, HistCmdA, HistCmdA>>),
      WriteLines(<<HistCmdA, <<>>, HistCmdA>>),
      <<"b", "\n", "\n", " ", "a", " ", "\n", "c">> }

\* the number of non-blank commands appended in one run of the store
MaxAppends == 4

\* historyFile.Append(cmd), while fewer than cap commands were appended
StoreAppendUpTo(cmd, cap) ==
    LET c == TrimSpace(cmd) IN
    /\ store.exists
    /\ Len(store.log) < cap
    /\ \E o \in SaveOutcomes(store) :
        store' = [HistoryAppend(store, cmd, o) EXCEPT
                    !.op = "append", !.arg = cmd,
                    !.log = IF c = <<>> THEN store.log ELSE Append(store.log, c)]
    /\ UNCHANGED <<serverVars, progVars, comp, swap>>

\* historyFile.Append(cmd)
StoreAppend(cmd) == StoreAppendUpTo(cmd, MaxAppends)

\* the j-th of the pairwise distinct commands
Cmd(j) == <<ToString(j)>>

\* the orders in which the maxSize + 5 distinct commands are appended:
\* ascending, descending, and ascending from the second and from the third
EvictOrders ==
    LET K == MaxSize + 5 IN
    { [j \in 1..K |-> Cmd(j)],
      [j \in 1..K |-> Cmd(K + 1 - j)],
      [j \in 1..K |-> Cmd((j % K) + 1)],
      [j \in 1..K |-> Cmd(((j + 1) % K) + 1)] }

\* historyFile.Append(cmd) for a command that was not appended before, the
\* next of one of the orders
AppendDistinct(cmd) ==
    /\ \A j \in 1..Len(store.log) : store.log[j] # cmd
    /\ \E ord \in EvictOrders :
        /\ Len(store.log) < Len(ord)
        /\ Append(store.log, cmd) = SubSeq(ord, 1, Len(store.log) + 1)
    /\ StoreAppendUpTo(cmd, store.maxSize + 5)

\* historyFile.Save()
StoreSave ==
    /\ store.exists
    /\ \E o \in SaveOutcomes(store) :
        store' = [HistorySave(store, o) EXCEPT !.op = "save"]
    /\ UNCHANGED <<serverVars, progVars, comp, swap>>

\* a command of two lines, as Append accepts it
HistCmdTwoLines == <<"a", "\n", "b">>

\* the process ends after a Save that returned nil, and the next run calls
\* NewHistoryFile, which loads the file that Save left
StoreRestart ==
    /\ store.exists
    /\ store.op = "save"
    /\ ~store.err
    /\ store' = [NewHistoryFile(store.onDisk, store.file, store.maxSize, FALSE) EXCEPT
                    !.op = "restart", !.log = store.log, !.saved = store.history]
    /\ UNCHANGED <<serverVars, progVars, comp, swap>>

(***************************************************************************)
(* Specification of main: startup, the accept loop, the console            *)
(***************************************************************************)

\* the values of the variables of main where main does not run
MainOff ==
    /\ conf = [cdnEnabled |-> TRUE, packs |-> <<>>, servers |-> ServersDefault, tty |-> TRUE]
    /\ mainPc = "off"
    /\ serverMap = ServerMapOf(ServersDefault)
    /\ rps = TRUE
    /\ rewrite = "no"
    /\ mainPacks = <<>>
    /\ engine = "none"
    /\ sessions = {}
    /\ consolePc = "off"
    /\ hist = NoHist
    /\ cur = <<>>
    /\ out = NoOut
    /\ exit = ""
    /\ store = NoStore
    /\ comp = NoComp

\* a slip of InitMain: main starts processCommand before it loads the servers
InitMainConsoleFirst ==
    /\ conf \in Confs
    /\ mainPc = "start"
    /\ serverMap = <<>>
    /\ rps = FALSE
    /\ rewrite = "no"
    /\ mainPacks = <<>>
    /\ engine = "none"
    /\ sessions = {}
    /\ consolePc = "init"
    /\ hist = NoHist
    /\ cur = <<>>
    /\ out = NoOut
    /\ exit = ""
    /\ store = NoStore
    /\ comp = NoComp
    /\ packs = <<>>
    /\ contentCache = <<>>
    /\ loaded = <<>>
    /\ req = [h \in Handlers |-> IdleReq]
    /\ listener = "none"
    /\ ready = FALSE
    /\ srv = "new"
    /\ startPc = "none"
    /\ startErr = ""
    /\ panicked = FALSE
    /\ waiter = [w \in Waiters |-> "idle"]
    /\ swap = NoSwap

InitMain ==
    /\ conf \in Confs
    /\ mainPc = "start"
    /\ serverMap = <<>>
    /\ rps = FALSE
    /\ rewrite = "no"
    /\ mainPacks = <<>>
    /\ engine = "none"
    /\ sessions = {}
    /\ consolePc = "off"
    /\ hist = NoHist
    /\ cur = <<>>
    /\ out = NoOut
    /\ exit = ""
    /\ store = NoStore
    /\ comp = NoComp
    /\ packs = <<>>
    /\ contentCache = <<>>
    /\ loaded = <<>>
    /\ req = [h \in Handlers |-> IdleReq]
    /\ listener = "none"
    /\ ready = FALSE
    /\ srv = "new"
    /\ startPc = "none"
    /\ startErr = ""
    /\ panicked = FALSE
    /\ waiter = [w \in Waiters |-> "idle"]
    /\ swap = NoSwap

NextMain ==
    \/ MainLoadServers
    \/ MainParse
    \/ MainNewServer
    \/ MainGoStart
    \/ MainWaitForReady
    \/ MainReady
    \/ MainDeadlock
    \/ MainRewrite
    \/ MainRewritten
    \/ MainListen
    \/ StartListen
    \/ StartSignal
    \/ StartServe
    \/ \E n \in Players : SessionJoin(n)
    \/ \E n \in Players : SessionLeave(n)
    \/ ProcessCommandInit
    \/ \E line \in ConsoleLines : Executor(line)
    \/ HandleCommand
    \/ ControlC
    \/ Interrupt

SpecMain == InitMain /\ [][NextMain]_vars

(***************************************************************************)
(* Specification of the server object                                      *)
(***************************************************************************)

\* NewResourcePackServer on any list of packs, any of whose reads may fail
Init ==
    /\ \E l \in PackLists : \E ok \in SUBSET (1..Len(l)) :
        /\ packs = PackMap(l)
        /\ contentCache = LoadCache(l, ok)
        /\ loaded = [u \in {l[i].uuid : i \in ok} |-> LastRead(l, ok, u)]
    /\ req = [h \in Handlers |-> IdleReq]
    /\ listener = "none"
    /\ ready = FALSE
    /\ srv = "new"
    /\ startPc = "none"
    /\ startErr = ""
    /\ panicked = FALSE
    /\ waiter = [w \in Waiters |-> "idle"]
    /\ swap = NoSwap
    /\ MainOff

Next ==
    \/ \E h \in Handlers : \E url \in RequestPaths : HandleRequest(h, url)
    \/ \E h \in Handlers : HandleCache(h)
    \/ \E h \in Handlers : HandleFill(h)
    \/ \E h \in Handlers : HandleReturn(h)
    \/ \E l \in PackLists : UpdatePacks(l)
    \/ StartCall
    \/ StartListen
    \/ StartSignal
    \/ StartServe
    \/ Close

Spec == Init /\ [][Next]_vars

(***************************************************************************)
(* Specification of the readiness gate: Start, Close and the callers of    *)
(* WaitForReady                                                            *)
(***************************************************************************)

InitGate ==
    /\ packs = PackMap(<<PackA>>)
    /\ contentCache = LoadCache(<<PackA>>, {1})
    /\ loaded = PackMap(<<PackA>>)
    /\ req = [h \in Handlers |-> IdleReq]
    /\ listener = "none"
    /\ ready = FALSE
    /\ srv = "new"
    /\ startPc = "none"
    /\ startErr = ""
    /\ panicked = FALSE
    /\ waiter = [w \in Waiters |-> "idle"]
    /\ swap = NoSwap
    /\ MainOff

NextGate ==
    \/ StartCall
    \/ StartListen
    \/ StartSignal
    \/ StartServe
    \/ Close
    \/ \E w \in Waiters : WaitForReady(w)
    \/ \E w \in Waiters : WaitReturn(w)

SpecGate == InitGate /\ [][NextGate]_vars

(***************************************************************************)
(* Specification of the history store: NewHistoryFile on any of the files, *)
(* then Append and Save in any order                                       *)
(***************************************************************************)

\* the values of the variables of the server where none was created
ServerOff ==
    /\ packs = <<>>
    /\ contentCache = <<>>
    /\ loaded = <<>>
    /\ req = [h \in Handlers |-> IdleReq]
    /\ listener = "none"
    /\ ready = FALSE
    /\ srv = "new"
    /\ startPc = "none"
    /\ startErr = ""
    /\ panicked = FALSE
    /\ waiter = [w \in Waiters |-> "idle"]
    /\ swap = NoSwap

\* MainOff but for the store
ProgOff ==
    /\ conf = [cdnEnabled |-> TRUE, packs |-> <<>>, servers |-> ServersDefault, tty |-> TRUE]
    /\ mainPc = "off"
    /\ serverMap = ServerMapOf(ServersDefault)
    /\ rps = FALSE
    /\ rewrite = "no"
    /\ mainPacks = <<>>
    /\ engine = "none"
    /\ sessions = {}
    /\ consolePc = "off"
    /\ hist = NoHist
    /\ cur = <<>>
    /\ out = NoOut
    /\ exit = ""

InitHist ==
    /\ \E onDisk \in BOOLEAN : \E f \in HistFiles : \E fails \in BOOLEAN :
        /\ ~onDisk => f = <<>>
        /\ store = NewHistoryFile(onDisk, f, MaxSize, fails)
    /\ comp = NoComp
    /\ ServerOff
    /\ ProgOff

NextHist ==
    \/ \E cmd \in RawCmds : StoreAppend(cmd)
    \/ StoreSave

SpecHist == InitHist /\ [][NextHist]_vars

(***************************************************************************)
(* Specification of restarts: the store is appended to and saved, and the  *)
(* next run loads what the run before saved                                *)
(***************************************************************************)

NextRestart ==
    \/ \E cmd \in RawCmds \cup {HistCmdTwoLines} : StoreAppend(cmd)
    \/ StoreSave
    \/ StoreRestart

SpecRestart == InitHist /\ [][NextRestart]_vars

(***************************************************************************)
(* Specification of eviction: maxSize + 5 pairwise distinct commands are   *)
(* appended, in one of the orders, to a store that is empty, holds the     *)
(* first of them, or holds other entries                                   *)
(***************************************************************************)

InitEvict ==
    /\ \E onDisk \in BOOLEAN :
        \E f \in {<<>>, WriteLines(<<Cmd(1)>>), WriteLines(<<HistCmdA, HistCmdB, Cmd(2)>>)} :
            /\ ~onDisk => f = <<>>
            /\ store = NewHistoryFile(onDisk, f, MaxSize, FALSE)
    /\ comp = NoComp
    /\ ServerOff
    /\ ProgOff

NextEvict == \E j \in 1..(MaxSize + 5) : AppendDistinct(Cmd(j))

SpecEvict == InitEvict /\ [][NextEvict]_vars

(***************************************************************************)
(* Specification of completion: the console is at its prompt, sessions     *)
(* come and go, and the prompt asks for completions                        *)
(***************************************************************************)

InitComplete ==
    /\ conf = [cdnEnabled |-> FALSE, packs |-> <<>>, servers |-> ServersDefault, tty |-> TRUE]
    /\ mainPc = "accept"
    /\ serverMap = ServerMapOf(ServersDefault)
    /\ rps = FALSE
    /\ rewrite = "no"
    /\ mainPacks = <<>>
    /\ engine = "listening"
    /\ sessions = {}
    /\ consolePc = "prompt"
    /\ hist = NoHist
    /\ cur = <<>>
    /\ out = NoOut
    /\ exit = ""
    /\ store = NoStore
    /\ comp = NoComp
    /\ ServerOff

NextComplete ==
    \/ \E n \in Players : SessionJoin(n)
    \/ \E n \in Players : SessionLeave(n)
    \/ \E text \in CompTexts : CompleteCall(text)

SpecComplete == InitComplete /\ [][NextComplete]_vars

(***************************************************************************)
(* Specification of the CDN rewrite                                        *)
(***************************************************************************)

\* the pack lists parse may return when the CDN is used: not empty, and two
\* packs may carry the same UUID
RewriteLists == UNION {[1..n -> Pack] : n \in 1..MaxPacks}

\* main after parse, the CDN enabled, on any such list
InitRewrite ==
    /\ \E l \in RewriteLists :
        /\ conf = [cdnEnabled |-> TRUE, packs |-> l, servers |-> ServersDefault, tty |-> FALSE]
        /\ mainPacks = l
    /\ mainPc = "newServer"
    /\ serverMap = ServerMapOf(ServersDefault)
    /\ rps = FALSE
    /\ rewrite = "no"
    /\ engine = "none"
    /\ sessions = {}
    /\ consolePc = "off"
    /\ hist = NoHist
    /\ cur = <<>>
    /\ out = NoOut
    /\ exit = ""
    /\ store = NoStore
    /\ comp = NoComp
    /\ ServerOff

NextRewrite ==
    \/ MainNewServer
    \/ MainGoStart
    \/ MainWaitForReady
    \/ MainReady
    \/ MainDeadlock
    \/ MainRewrite
    \/ MainRewritten
    \/ MainListen
    \/ StartListen
    \/ StartSignal
    \/ StartServe

SpecRewrite == InitRewrite /\ [][NextRewrite]_vars

(***************************************************************************)
(* Specification of pack replacement: the server serves, UpdatePacks runs   *)
(* step by step beside the request handlers                                *)
(***************************************************************************)

\* the server after NewResourcePackServer on any list and a Start that serves
InitSwap ==
    /\ \E l \in PackLists : \E ok \in SUBSET (1..Len(l)) :
        /\ packs = PackMap(l)
        /\ contentCache = LoadCache(l, ok)
        /\ loaded = [u \in {l[i].uuid : i \in ok} |-> LastRead(l, ok, u)]
    /\ req = [h \in Handlers |-> IdleReq]
    /\ listener = "bound"
    /\ ready = TRUE
    /\ srv = "serving"
    /\ startPc = "serving"
    /\ startErr = ""
    /\ panicked = FALSE
    /\ waiter = [w \in 1..NumWaiters |-> "idle"]
    /\ swap = NoSwap
    /\ MainOff

NextSwap ==
    \/ \E h \in Handlers : \E url \in RequestPaths : HandleRequest(h, url)
    \/ \E h \in Handlers : HandleCache(h)
    \/ \E h \in Handlers : HandleFill(h)
    \/ \E h \in Handlers : HandleReturn(h)
    \/ \E l \in PackLists : UpdateLock(l)
    \/ UpdateStore

SpecSwap == InitSwap /\ [][NextSwap]_vars

(***************************************************************************)
(* Specification of the locks: every Lock, RLock, Unlock and RUnlock of    *)
(* handleRequest and UpdatePacks is a step, and req[h].locks is what the   *)
(* handler holds                                                           *)
(***************************************************************************)

\* r.URL.Path of the requests of this specification
LockPaths == { <<"/", "a">>, <<"/", "b">>, <<"/", ".", ".">> }

\* the argument of UpdatePacks of this specification: PackB is withdrawn and
\* PackA republished
LockLists == { <<PackA2>> }

\* handlers inside packMutex.RLock()
PackReaders == {h \in Handlers : "packs" \in req[h].locks}

\* handlers inside contentCacheMutex.RLock()
CacheReaders == {h \in Handlers : "cacheR" \in req[h].locks}

\* handlers inside contentCacheMutex.Lock(), and those blocked in the call:
\* a blocked Lock keeps new readers out
CacheWriters == {h \in Handlers : "cacheW" \in req[h].locks}
CacheWritersWaiting == {h \in Handlers : req[h].pc = "lockCache"}

\* handleRequest up to the path-traversal guard
HandleEnter(h, url) ==
    LET path == TrimPrefix(url, <<"/">>) IN
    /\ Alive
    /\ srv = "serving"
    /\ req[h].pc = "idle"
    /\ IF InvalidPath(path)
       THEN req' = [req EXCEPT ![h] =
                [IdleReq EXCEPT !.pc = "done", !.url = url, !.path = path,
                                !.status = StatusNotFound]]
       ELSE req' = [req EXCEPT ![h] =
                [IdleReq EXCEPT !.pc = "rlockPacks", !.url = url, !.path = path]]
    /\ UNCHANGED <<packs, contentCache, loaded, listener, ready, srv, startPc, startErr, panicked, waiter, mainVars, swap>>

\* s.packMutex.RLock(): waits while UpdatePacks holds or awaits the lock
HandleRLockPacks(h) ==
    LET r == req[h] IN
    /\ Alive
    /\ r.pc = "rlockPacks"
    /\ swap.pc = "idle"
    /\ req' = [req EXCEPT ![h] = [r EXCEPT !.pc = "lookup", !.locks = r.locks \cup {"packs"}]]
    /\ UNCHANGED <<packs, contentCache, loaded, listener, ready, srv, startPc, startErr, panicked, waiter, mainVars, swap>>

\* a slip of HandleLookup: the RUnlock is deferred to the return of the handler
HandleLookupDeferUnlock(h) ==
    LET r == req[h] IN
    /\ Alive
    /\ r.pc = "lookup"
    /\ IF FoundPack(r.path)
       THEN req' = [req EXCEPT ![h] =
                [r EXCEPT !.pc = "rlockCache", !.pack = LookupPack(r.path), !.lookups = 1]]
       ELSE req' = [req EXCEPT ![h] =
                [r EXCEPT !.pc = "done", !.status = StatusNotFound, !.lookups = 1]]
    /\ UNCHANGED <<packs, contentCache, loaded, listener, ready, srv, startPc, startErr, panicked, waiter, mainVars, swap>>

\* pack, ok := s.packs[path]; s.packMutex.RUnlock(); 404 when !ok
HandleLookup(h) ==
    LET r == req[h] IN
    /\ Alive
    /\ r.pc = "lookup"
    /\ IF FoundPack(r.path)
       THEN req' = [req EXCEPT ![h] =
                [r EXCEPT !.pc = "rlockCache", !.pack = LookupPack(r.path), !.lookups = 1,
                          !.locks = r.locks \ {"packs"}]]
       ELSE req' = [req EXCEPT ![h] =
                [r EXCEPT !.pc = "done", !.status = StatusNotFound, !.lookups = 1,
                          !.locks = r.locks \ {"packs"}]]
    /\ UNCHANGED <<packs, contentCache, loaded, listener, ready, srv, startPc, startErr, panicked, waiter, mainVars, swap>>

\* s.contentCacheMutex.RLock(): waits while a handler holds or awaits Lock
HandleRLockCache(h) ==
    LET r == req[h] IN
    /\ Alive
    /\ r.pc = "rlockCache"
    /\ CacheWriters = {}
    /\ CacheWritersWaiting = {}
    /\ req' = [req EXCEPT ![h] = [r EXCEPT !.pc = "cached", !.locks = r.locks \cup {"cacheR"}]]
    /\ UNCHANGED <<packs, contentCache, loaded, listener, ready, srv, startPc, startErr, panicked, waiter, mainVars, swap>>

\* content, cached := s.contentCache[path]; s.contentCacheMutex.RUnlock()
HandleCached(h) ==
    LET r == req[h] IN
    /\ Alive
    /\ r.pc = "cached"
    /\ IF r.path \in DOMAIN contentCache
       THEN req' = [req EXCEPT ![h] =
                [r EXCEPT !.pc = "write", !.content = contentCache[r.path],
                          !.lookups = r.lookups + 1, !.locks = r.locks \ {"cacheR"}]]
       ELSE req' = [req EXCEPT ![h] =
                [r EXCEPT !.pc = "read", !.lookups = r.lookups + 1,
                          !.locks = r.locks \ {"cacheR"}]]
    /\ UNCHANGED <<packs, contentCache, loaded, listener, ready, srv, startPc, startErr, panicked, waiter, mainVars, swap>>

\* pack.ReadAt on a miss: the bytes, or the error answered with 500
HandleReadAt(h) ==
    LET r == req[h] IN
    /\ Alive
    /\ r.pc = "read"
    /\ \/ req' = [req EXCEPT ![h] = [r EXCEPT !.pc = "lockCache", !.content = r.pack.content]]
       \/ req' = [req EXCEPT ![h] = [r EXCEPT !.pc = "done", !.status = StatusInternalServerError]]
    /\ UNCHANGED <<packs, contentCache, loaded, listener, ready, srv, startPc, startErr, panicked, waiter, mainVars, swap>>

\* s.contentCacheMutex.Lock(): waits until no handler is inside the mutex
HandleLockCache(h) ==
    LET r == req[h] IN
    /\ Alive
    /\ r.pc = "lockCache"
    /\ CacheReaders = {}
    /\ CacheWriters = {}
    /\ req' = [req EXCEPT ![h] = [r EXCEPT !.pc = "store", !.locks = r.locks \cup {"cacheW"}]]
    /\ UNCHANGED <<packs, contentCache, loaded, listener, ready, srv, startPc, startErr, panicked, waiter, mainVars, swap>>

\* s.contentCache[path] = content; s.contentCacheMutex.Unlock()
HandleStore(h) ==
    LET r == req[h] IN
    /\ Alive
    /\ r.pc = "store"
    /\ contentCache' = MapPut(contentCache, r.path, r.content)
    /\ req' = [req EXCEPT ![h] = [r EXCEPT !.pc = "write", !.locks = r.locks \ {"cacheW"}]]
    /\ UNCHANGED <<packs, loaded, listener, ready, srv, startPc, startErr, panicked, waiter, mainVars, swap>>

\* the headers, WriteHeader(200) and w.Write(content)
HandleWrite(h) ==
    LET r == req[h] IN
    /\ Alive
    /\ r.pc = "write"
    /\ req' = [req EXCEPT ![h] = Respond(r, r.content)]
    /\ UNCHANGED <<packs, contentCache, loaded, listener, ready, srv, startPc, startErr, panicked, waiter, mainVars, swap>>

\* a caller enters UpdatePacks and blocks in s.packMutex.Lock()
UpdateCall(l) ==
    /\ Alive
    /\ swap.pc = "idle"
    /\ swap' = [pc |-> "waiting", list |-> l]
    /\ UNCHANGED <<serverVars, mainVars>>

\* s.packMutex.Lock() returns once no handler reads the PackageSet
UpdateAcquire ==
    /\ Alive
    /\ swap.pc = "waiting"
    /\ PackReaders = {}
    /\ swap' = [swap EXCEPT !.pc = "locked"]
    /\ UNCHANGED <<serverVars, mainVars>>

\* the server after NewResourcePackServer(<<PackA, PackB>>) with any outcome
\* of the two reads, and a Start that serves
InitLocks ==
    /\ \E ok \in SUBSET {1, 2} :
        /\ packs = PackMap(<<PackA, PackB>>)
        /\ contentCache = LoadCache(<<PackA, PackB>>, ok)
        /\ loaded = [u \in {<<PackA, PackB>>[i].uuid : i \in ok} |->
                        LastRead(<<PackA, PackB>>, ok, u)]
    /\ req = [h \in Handlers |-> IdleReq]
    /\ listener = "bound"
    /\ ready = TRUE
    /\ srv = "serving"
    /\ startPc = "serving"
    /\ startErr = ""
    /\ panicked = FALSE
    /\ waiter = [w \in 1..NumWaiters |-> "idle"]
    /\ swap = NoSwap
    /\ MainOff

\* the steps of a handler between the arrival of the request and its answer
HandleStep(h) ==
    \/ HandleRLockPacks(h)
    \/ HandleLookup(h)
    \/ HandleRLockCache(h)
    \/ HandleCached(h)
    \/ HandleReadAt(h)
    \/ HandleLockCache(h)
    \/ HandleStore(h)
    \/ HandleWrite(h)

\* the steps of UpdatePacks after the call
UpdateStep ==
    \/ UpdateAcquire
    \/ UpdateStore

NextLocks ==
    \/ \E h \in Handlers : \E url \in LockPaths : HandleEnter(h, url)
    \/ \E h \in Handlers : HandleStep(h)
    \/ \E h \in Handlers : HandleReturn(h)
    \/ \E l \in LockLists : UpdateCall(l)
    \/ UpdateStep

SpecLocks == InitLocks /\ [][NextLocks]_vars

\* the goroutines are scheduled, and sync.RWMutex starves neither a reader
\* nor a writer: a goroutine whose next step is possible again and again
\* takes it
FairLocks ==
    /\ \A h \in Handlers : SF_vars(HandleStep(h))
    /\ SF_vars(UpdateStep)

LiveLocks == SpecLocks /\ FairLocks

(***************************************************************************)
(* Claims                                                                  *)
(***************************************************************************)

\* C1: a handler that takes a request for an identifier which the PackageSet
\* holds and whose pack was read in full at load time goes on to serve it, and
\* answers 200 with exactly the bytes of that pack.
C1_LoadedPackIsServed ==
    /\ [](\A h \in Handlers :
            (/\ req[h].pc = "done"
             /\ req[h].path \in DOMAIN loaded
             /\ req[h].status # StatusNotFound)
            => /\ req[h].status = StatusOK
               /\ req[h].body = loaded[req[h].path].content)
    /\ [][\A h \in Handlers :
            (/\ req[h].pc = "idle"
             /\ req'[h].pc # "idle"
             /\ req'[h].path \in DOMAIN loaded
             /\ req'[h].path \in DOMAIN packs)
            => req'[h].status # StatusNotFound]_vars

\* C1 witness: a pack cached at load time has been served
C1_Witness ==
    \E h \in Handlers :
        /\ req[h].pc = "done"
        /\ req[h].path \in DOMAIN loaded
        /\ req[h].status = StatusOK
        /\ req[h].body = PackB.content

\* C2: a handler that takes a request for an identifier the PackageSet does
\* not hold at that moment answers 404 with no body, whatever the cache holds.
C2_AbsentIsNotFound ==
    [][\A h \in Handlers :
        (/\ req[h].pc = "idle"
         /\ req'[h].pc # "idle"
         /\ req'[h].path \notin DOMAIN packs)
        => /\ req'[h].pc = "done"
           /\ req'[h].status = StatusNotFound
           /\ req'[h].body = <<>>]_vars

\* C2 witness: 404 for an identifier that is cached but no longer in the set
C2_Witness ==
    \E h \in Handlers :
        /\ req[h].pc = "done"
        /\ req[h].status = StatusNotFound
        /\ req[h].lookups = 1
        /\ req[h].path \in DOMAIN contentCache
        /\ req[h].path \notin DOMAIN packs

\* the URL path with its leading slash stripped
StripSlash(url) == IF url # <<>> /\ url[1] = "/" THEN Tail(url) ELSE url

\* the identifier is empty, contains a slash or contains two dots in a row
BadIdentifier(id) ==
    \/ id = <<>>
    \/ \E i \in 1..Len(id) : id[i] = "/"
    \/ \E i \in 1..(Len(id) - 1) : id[i] = "." /\ id[i + 1] = "."

\* C3: a request whose identifier is empty or contains "/" or ".." is
\* answered 404 and has read neither the PackageSet nor the content cache.
C3_TraversalNeverLooksUp ==
    \A h \in Handlers :
        (req[h].pc # "idle" /\ BadIdentifier(StripSlash(req[h].url)))
        => /\ req[h].pc = "done"
           /\ req[h].status = StatusNotFound
           /\ req[h].lookups = 0

\* C3 witness: a ".." identifier was rejected without a lookup
C3_Witness ==
    \E h \in Handlers :
        /\ req[h].pc = "done"
        /\ req[h].url = <<"/", "a", ".", ".">>
        /\ req[h].status = StatusNotFound
        /\ req[h].lookups = 0

\* C4: no caller of WaitForReady gets past it before Start has bound the
\* socket and signalled; a blocked caller is released by that signal and by
\* nothing else; once signalled no caller blocks.
C4_ReadinessGate ==
    /\ [](\A w \in Waiters :
            /\ waiter[w] = "blocked" => ~ready
            /\ waiter[w] \in {"unblocked", "immediate"} => ready
            /\ ready => listener # "none")
    /\ [][\A w \in Waiters :
            /\ (waiter[w] = "blocked" /\ waiter'[w] # "blocked")
                => (~ready /\ ready' /\ waiter'[w] = "unblocked")
            /\ (waiter[w] = "idle" /\ waiter'[w] # "idle" /\ ready)
                => waiter'[w] = "immediate"]_vars

\* C4 witness: two callers that blocked before Start have been released and
\* a third, calling later, returned at once
C4_Witness ==
    \E w1, w2, w3 \in Waiters :
        /\ waiter[w1] = "unblocked"
        /\ waiter[w2] = "unblocked"
        /\ w1 # w2
        /\ waiter[w3] = "immediate"
        /\ srv = "serving"

\* C5: once Start has returned the bind error, main is not left blocked on
\* the readiness gate and the engine is not listening.
C5_BindFailureAbortsStartup ==
    startErr = "bind" => (waiter[MainWaiter] # "blocked" /\ engine = "none")

\* C6: with the distribution server in use, the startup steps happen in the
\* order cache load, bind, readiness signal, CDN rewrite, engine listen: the
\* rewrite is not invoked before the signal, the signal not before the bind,
\* the bind not before the load, and the engine listens only after the
\* rewrite has completed.
C6_StartupOrder ==
    /\ rewrite # "no" => ready
    /\ ready => listener # "none"
    /\ listener # "none" => rps
    /\ (rps /\ engine # "none") => rewrite = "done"

\* C6 witness: the engine listens after a completed rewrite
C6_Witness ==
    /\ rps
    /\ engine = "listening"
    /\ rewrite = "done"
    /\ mainPacks = ModifyResourcePackForCDN(<<PackA, PackB>>, BaseURL)

\* the history is flushed, as far as the file system allows: the file holds
\* the entries in memory, or the last Save failed
HistoryFlushed == hist.exists => (hist.synced \/ hist.failed)

\* C7: when the process has exited through stop, Ctrl+C or the interrupt
\* signal, no session is left connected, the distribution server is not
\* serving any more and the history is flushed.
C7_ShutdownCleansUp ==
    exit \in {"stop", "ctrlc", "signal"}
    => /\ sessions = {}
       /\ rps => srv # "serving"
       /\ HistoryFlushed

\* C8: once handleCommand has handled a line whose command is stop or exit,
\* the process has exited, with the distribution server and the engine
\* closed and the history flushed.
C8_StopAndExitTerminate ==
    (out.args # <<>> /\ out.args[1] \in {CmdStop, CmdExit})
    => /\ exit = "stop"
       /\ engine = "closed"
       /\ rps => srv # "serving"
       /\ HistoryFlushed

\* the step in which handleCommand handles the accepted line
DispatchStep == consolePc = "dispatch" /\ (consolePc' = "prompt" \/ exit' # "")

\* conf.Servers as a set of names, and the address configured for a name
ConfiguredNames == {conf.servers[i].name : i \in 1..Len(conf.servers)}

\* C9: transfer is called only for a player argument equal to the display
\* name of a connected session and a server argument equal to a configured
\* server name, with that session and that server's address; when either
\* argument matches nothing, "not found" is reported and transfer is not
\* called.
C9_TransferOnlyOnExactMatch ==
    [][DispatchStep =>
        LET a == Fields(cur) IN
        /\ out'.args = a
        /\ out'.transfer # NoCall
            => /\ a[1] = CmdTransfer
               /\ a[2] \in sessions
               /\ a[3] \in ConfiguredNames
               /\ out'.transfer.player = a[2]
               /\ \E i \in 1..Len(conf.servers) :
                    /\ conf.servers[i].name = a[3]
                    /\ conf.servers[i].addr = out'.transfer.addr
        /\ (/\ a[1] = CmdTransfer
            /\ Len(a) >= 3
            /\ (a[2] \notin sessions \/ a[3] \notin ConfiguredNames))
            => /\ out'.report \in {"player not found", "server not found"}
               /\ out'.transfer = NoCall]_vars

\* C9 witness: "al" was asked for while "Al" is connected, and was not found
C9_Witness ==
    /\ out.args = <<CmdTransfer, <<"a", "l">>, Lobby>>
    /\ out.report = "player not found"
    /\ out.transfer = NoCall
    /\ SessAl \in sessions

\* C10, as claimed: transfer looks up or transfers only when it has exactly
\* two arguments; with fewer it reports the usage and does neither.
C10_ExactlyTwoArguments ==
    (out.args # <<>> /\ out.args[1] = CmdTransfer)
    => /\ (out.lookups > 0 \/ out.transfer # NoCall) => Len(out.args) = 3
       /\ Len(out.args) < 3
            => (out.report = "usage" /\ out.lookups = 0 /\ out.transfer = NoCall)

\* C10, amended: transfer looks up or transfers only when it has at least two
\* arguments, of which it uses the first two; with fewer it reports the usage
\* and does neither.
C10_AtLeastTwoArguments ==
    (out.args # <<>> /\ out.args[1] = CmdTransfer)
    => /\ (out.lookups > 0 \/ out.transfer # NoCall) => Len(out.args) >= 3
       /\ out.transfer # NoCall => out.transfer.player = out.args[2]
       /\ Len(out.args) < 3
            => (out.report = "usage" /\ out.lookups = 0 /\ out.transfer = NoCall)

\* C10 witness: transfer with a single argument reported the usage
C10_Witness ==
    /\ out.args = <<CmdTransfer, SessAl>>
    /\ out.report = "usage"
    /\ SessAl \in sessions

\* C11: an Append whose trimmed command equals the last entry leaves the
\* history as it was; the same command appended twice to an empty store
\* leaves one entry.
C11_RepeatLeavesHistoryUnchanged ==
    /\ []((/\ store.exists
           /\ store.loaded = <<>>
           /\ Len(store.log) = 2
           /\ store.log[1] = store.log[2])
          => Len(store.history) = 1)
    /\ [][(/\ store'.log # store.log
           /\ store.history # <<>>
           /\ TrimSpace(store'.arg) = store.history[Len(store.history)])
          => store'.history = store.history]_vars

\* C11 witness: "a" and then " a<tab>" were appended to an empty store
C11_Witness ==
    /\ store.exists
    /\ store.loaded = <<>>
    /\ store.log = <<HistCmdA, HistCmdA>>
    /\ store.arg = <<" ", "a", "\t">>
    /\ store.history = <<HistCmdA>>

\* C12: once maxSize + 5 pairwise distinct commands were appended, the
\* history is the last maxSize of them, in the order they were appended.
C12_LastNSurvive ==
    (/\ store.exists
     /\ Len(store.log) = store.maxSize + 5
     /\ \A i, j \in 1..Len(store.log) : i # j => store.log[i] # store.log[j])
    => /\ Len(store.history) = store.maxSize
       /\ \A k \in 1..store.maxSize : store.history[k] = store.log[5 + k]

\* C12 witness: the commands were appended from the third on, to a store
\* that held other entries
C12_Witness ==
    /\ store.exists
    /\ store.loaded # <<>>
    /\ Len(store.log) = store.maxSize + 5
    /\ store.log[1] = Cmd(3)
    /\ store.log[Len(store.log)] = Cmd(2)
    /\ store.history[store.maxSize] = Cmd(2)

\* C13: after an Append of a non-blank command that returned no error, the
\* file holds exactly the entries in memory, one per line, in order.
C13_FileHoldsHistoryAfterAppend ==
    (/\ store.exists
     /\ store.op = "append"
     /\ TrimSpace(store.arg) # <<>>
     /\ ~store.err)
    => /\ store.onDisk
       /\ store.file = WriteLines(store.history)

\* C14: no entry of the history equals the entry before it.
C14_NoAdjacentRepeat ==
    store.exists =>
        \A i \in 2..Len(store.history) : store.history[i] # store.history[i - 1]

\* the lines a file is made of, and the sequences of them
FileLines == {HistCmdA, HistCmdB, HistCmdC, <<>>}
FileLineSeqs == UNION {[1..n -> FileLines] : n \in 0..(MaxSize + 2)}

\* the trimmed lines that are not blank
NonBlankLines(lines) ==
    LET IsEntry(l) == TrimSpace(l) # <<>> IN
    SelectSeq(lines, IsEntry)

\* C15: the history never holds more than maxSize entries, and a file with
\* more than maxSize non-blank lines is loaded as its last maxSize non-blank
\* lines, in file order.
C15_AtMostMaxSizeEntries ==
    store.exists =>
        /\ Len(store.history) <= store.maxSize
        /\ (store.op = "new" /\ store.onDisk) =>
            \A lines \in FileLineSeqs :
                LET kept == NonBlankLines(lines) IN
                (store.file = WriteLines(lines) /\ Len(kept) > store.maxSize)
                => store.history =
                    SubSeq(kept, Len(kept) - store.maxSize + 1, Len(kept))

\* C15 witness: the file of maxSize + 2 entries was loaded
C15_Witness ==
    /\ store.exists
    /\ store.op = "new"
    /\ store.file = WriteLines(LongHistory)
    /\ Len(store.history) = MaxSize
    /\ store.history = SubSeq(LongHistory, 3, MaxSize + 2)

\* C16: handleCommand is handed only lines that are not blank after
\* trimming, and when it is, Append has been called for that line exactly
\* once and the line is the last entry of the history (where there is a
\* history); the history changes in no step of handleCommand, and a step
\* that leaves the prompt for a dispatch is the only one that appends.
C16_AppendOnceBeforeDispatch ==
    /\ [](consolePc = "dispatch"
            => /\ cur # <<>>
               /\ TrimSpace(cur) = cur
               /\ Fields(cur) # <<>>
               /\ hist.exists => (hist.calls = 1 /\ hist.last = cur))
    /\ [][/\ (hist'.last # hist.last \/ hist'.calls # hist.calls)
                => \/ consolePc = "init"
                   \/ consolePc = "prompt" /\ consolePc' = "dispatch"
          /\ out' # out
                => (consolePc = "dispatch" /\ hist' = hist /\ out'.args = Fields(cur))]_vars

\* C16 witness: the unknown command help has been appended and is about to
\* be dispatched, and help is dispatched a second time after it
C16_Witness ==
    /\ consolePc = "dispatch"
    /\ cur = CmdHelp
    /\ hist.exists
    /\ hist.last = CmdHelp
    /\ hist.calls = 1
    /\ out.args = <<CmdHelp>>

\* the two characters are the same letter, whatever their case
SameLetter(a, b) ==
    \/ a = b
    \/ \E k \in 1..Len(LowerLetters) : {a, b} = {LowerLetters[k], UpperLetters[k]}

\* name starts with word, the case of letters ignored
StartsWithFold(name, word) ==
    /\ Len(word) <= Len(name)
    /\ \A i \in 1..Len(word) : SameLetter(name[i], word[i])

\* the number of spaces of the text, and the text before its first space
SpacesIn(text) == Cardinality({i \in 1..Len(text) : text[i] = " "})
CommandToken(text) ==
    LET first == CHOOSE i \in 1..(Len(text) + 1) :
                    /\ (i <= Len(text) => text[i] = " ")
                    /\ \A j \in 1..(i - 1) : text[j] # " "
    IN  SubSeq(text, 1, first - 1)

\* the texts of the suggestions Complete returned
SuggestedTexts == [i \in 1..Len(comp.sugg) |-> comp.sugg[i].text]
SuggestedSet == {comp.sugg[i].text : i \in 1..Len(comp.sugg)}

\* C17: for a non-empty text without a space, Complete returns those of
\* players, transfer, info, stop, exit that start with the text, the case of
\* letters ignored, in that order.
C17_CommandCandidates ==
    (comp.calls > 0 /\ comp.text # <<>> /\ SpacesIn(comp.text) = 0)
    => LET Matches(name) == StartsWithFold(name, comp.text) IN
       SuggestedTexts =
            SelectSeq(<<CmdPlayers, CmdTransfer, CmdInfo, CmdStop, CmdExit>>, Matches)

\* C17 witness: "trans" yields transfer alone
C17_Witness ==
    /\ comp.calls > 0
    /\ comp.text = <<"t", "r", "a", "n", "s">>
    /\ SuggestedTexts = <<CmdTransfer>>

\* C18, as claimed: after transfer, the second token is completed with the
\* names of the sessions connected at the call that start with the typed
\* word, the third with the configured server names that start with it, and
\* every other token or position yields nothing.
C18_ArgumentCandidates ==
    LET word == GetWordBeforeCursor(comp.text)
        spaces == SpacesIn(comp.text)
        transfer == CommandToken(comp.text) = CmdTransfer
    IN  (comp.calls > 0 /\ spaces >= 1)
        => /\ (transfer /\ spaces = 1)
                => /\ SuggestedSet = {n \in comp.seen : StartsWithFold(n, word)}
                   /\ Len(comp.sugg) = Cardinality(SuggestedSet)
           /\ (transfer /\ spaces = 2)
                => /\ SuggestedSet = {n \in ConfiguredNames : StartsWithFold(n, word)}
                   /\ Len(comp.sugg) = Cardinality(SuggestedSet)
           /\ ~(transfer /\ spaces \in {1, 2}) => comp.sugg = <<>>

\* C18, amended: the same for a typed word that is not empty; when the text
\* ends with a space (the typed word is empty) Complete returns nothing.
C18_ArgumentCandidatesNonEmptyWord ==
    LET word == GetWordBeforeCursor(comp.text)
        spaces == SpacesIn(comp.text)
        transfer == CommandToken(comp.text) = CmdTransfer
    IN  (comp.calls > 0 /\ spaces >= 1)
        => /\ (transfer /\ spaces = 1 /\ word # <<>>)
                => /\ SuggestedSet = {n \in comp.seen : StartsWithFold(n, word)}
                   /\ Len(comp.sugg) = Cardinality(SuggestedSet)
           /\ (transfer /\ spaces = 2 /\ word # <<>>)
                => /\ SuggestedSet = {n \in ConfiguredNames : StartsWithFold(n, word)}
                   /\ Len(comp.sugg) = Cardinality(SuggestedSet)
           /\ (word = <<>> \/ ~(transfer /\ spaces \in {1, 2})) => comp.sugg = <<>>

\* C18 witness: "transfer a" yields Al, who joined after the call before
C18_Witness ==
    /\ comp.calls >= 2
    /\ comp.text = Join(<<CmdTransfer, <<"a">>>>, <<" ">>)
    /\ comp.before = {}
    /\ comp.seen = {SessAl, SessBo}
    /\ SuggestedTexts = <<SessAl>>

\* C19: ModifyResourcePackForCDN returns as many packs as it was given, in
\* the same order: the i-th has the UUID of the i-th pack given and the URL
\* <baseURL>/<UUID>.
C19_RewriteKeepsPacks ==
    rewrite = "done"
    => /\ Len(mainPacks) = Len(conf.packs)
       /\ \A i \in 1..Len(conf.packs) :
            /\ mainPacks[i].uuid = conf.packs[i].uuid
            /\ mainPacks[i].url = BaseURL \o <<"/">> \o conf.packs[i].uuid

\* C19 witness: the rewrite of B, A has returned, A read on demand
C19_Witness ==
    /\ rewrite = "done"
    /\ conf.packs = <<PackB, PackA>>
    /\ UuidA \notin DOMAIN loaded
    /\ mainPacks[1].url = BaseURL \o <<"/", "b">>
    /\ mainPacks[2].url = BaseURL \o <<"/", "a">>

\* C20: the load succeeds with cache entries for exactly the packs read in
\* full. A handler that misses the cache reads the pack it looked up: when
\* the read succeeds it stores the bytes read under the identifier and
\* answers 200 with them; when it fails it answers 500 with no body and
\* leaves the cache as it was, without an entry for the identifier. Nothing
\* but such a fill changes the cache, and a request for an identifier of the
\* set is never refused before the cache and the pack have been tried.
C20_FailedReadIsRetried ==
    /\ DOMAIN contentCache = DOMAIN loaded
    /\ DOMAIN loaded \subseteq DOMAIN packs
    /\ [][\A h \in Handlers :
            (/\ req[h].pc = "cache"
             /\ req'[h] # req[h]
             /\ req[h].path \notin DOMAIN contentCache)
            => \/ /\ req'[h].pc = "fill"
                  /\ req'[h].content = req[h].pack.content
                  /\ contentCache' = contentCache
               \/ /\ req'[h].pc = "done"
                  /\ req'[h].status = StatusInternalServerError
                  /\ req'[h].body = <<>>
                  /\ contentCache' = contentCache
                  /\ req[h].path \notin DOMAIN contentCache']_vars
    /\ [][\A h \in Handlers :
            (req[h].pc = "fill" /\ req'[h] # req[h])
            => /\ req'[h].pc = "done"
               /\ req'[h].status = StatusOK
               /\ req'[h].body = req[h].pack.content
               /\ req[h].path \in DOMAIN contentCache'
               /\ contentCache'[req[h].path] = req[h].pack.content]_vars
    /\ [][contentCache' # contentCache
            => \E h \in Handlers : req[h].pc = "fill" /\ req'[h].pc = "done"]_vars
    /\ [][\A h \in Handlers :
            (/\ req[h].pc = "idle"
             /\ req'[h].pc # "idle"
             /\ ~InvalidPath(req'[h].path)
             /\ req'[h].path \in DOMAIN packs)
            => req'[h].pc = "cache"]_vars

\* C20 witness: for a pack whose read failed at load, one request was
\* answered 500 and another one read it, cached it and returned it
C20_Witness ==
    /\ UuidA \notin DOMAIN loaded
    /\ UuidA \in DOMAIN contentCache
    /\ contentCache[UuidA] = PackA.content
    /\ req["h1"].pc = "done"
    /\ req["h1"].path = UuidA
    /\ req["h1"].status = StatusInternalServerError
    /\ req["h2"].pc = "done"
    /\ req["h2"].path = UuidA
    /\ req["h2"].status = StatusOK
    /\ req["h2"].body = PackA.content
    /\ req["h2"].lookups = 2

\* the bytes are the complete content of a pack published under the UUID
CompleteContentOf(bytes, uuid) == \E p \in Pack : p.uuid = uuid /\ p.content = bytes

\* C21: with handlers running concurrently, every cache entry is the complete
\* content of a pack of its identifier, a fill leaves the entries of all other
\* identifiers as they were, an entry changes only by a fill for its own
\* identifier, and every 200 response carries the complete content of a pack
\* of the identifier asked for.
C21_ConcurrentFillsKeepCache ==
    /\ [](\A u \in DOMAIN contentCache : CompleteContentOf(contentCache[u], u))
    /\ [](\A h \in Handlers :
            (req[h].pc = "done" /\ req[h].status = StatusOK)
            => CompleteContentOf(req[h].body, req[h].path))
    /\ [][\A u \in DOMAIN contentCache :
            /\ u \in DOMAIN contentCache'
            /\ contentCache'[u] # contentCache[u]
                => \E h \in Handlers :
                        /\ req[h].pc = "fill"
                        /\ req[h].path = u
                        /\ req'[h].pc = "done"
                        /\ contentCache'[u] = req[h].content]_vars

\* C21 witness: A and B were both read on demand; while one handler has
\* answered A after its fill, the other has read A too and is about to fill
C21_Witness ==
    /\ DOMAIN loaded = {}
    /\ DOMAIN contentCache = {UuidA, UuidB}
    /\ req["h1"].pc = "done"
    /\ req["h1"].path = UuidA
    /\ req["h1"].status = StatusOK
    /\ req["h1"].lookups = 2
    /\ req["h2"].pc = "fill"
    /\ req["h2"].path = UuidA

\* the packs of the list, by UUID
ListedUnder(l, u) == {l[i] : i \in {j \in 1..Len(l) : l[j].uuid = u}}

\* C22: the PackageSet changes only when UpdatePacks, holding the lock,
\* stores the whole set built from its argument, and a handler looks a pack
\* up only while no UpdatePacks holds the lock: its answer is that of the set
\* of that moment, the whole old set or the whole new one.
C22_ReplaceIsAtomic ==
    /\ [][packs' # packs
            => /\ swap.pc = "locked"
               /\ swap'.pc = "idle"
               /\ DOMAIN packs' = {swap.list[i].uuid : i \in 1..Len(swap.list)}
               /\ \A u \in DOMAIN packs' : packs'[u] \in ListedUnder(swap.list, u)]_vars
    /\ [][\A h \in Handlers :
            (req[h].pc = "idle" /\ req'[h].lookups = 1)
            => /\ swap.pc = "idle"
               /\ packs' = packs
               /\ IF req'[h].path \in DOMAIN packs
                  THEN req'[h].pc = "cache" /\ req'[h].pack = packs[req'[h].path]
                  ELSE req'[h].pc = "done" /\ req'[h].status = StatusNotFound]_vars

\* C22 witness: the set was A, B when UpdatePacks took the lock for the list
\* of the other A alone; after the swap one handler finds that A and the other
\* finds no B
C22_Witness ==
    /\ swap = [pc |-> "idle", list |-> <<PackA2>>]
    /\ packs = PackMap(<<PackA2>>)
    /\ DOMAIN loaded = {UuidA, UuidB}
    /\ req["h1"].pc = "cache"
    /\ req["h1"].pack = PackA2
    /\ req["h2"].pc = "done"
    /\ req["h2"].path = UuidB
    /\ req["h2"].status = StatusNotFound

\* C23: Start closes the ready channel when the socket is bound and the
\* server does not serve yet; the server begins to serve, and a handler takes
\* a request, only when the channel is closed.
C23_SignalBetweenBindAndServe ==
    /\ [][(~ready /\ ready')
            => /\ listener = "bound"
               /\ listener' = "bound"
               /\ startPc = "bound"
               /\ srv # "serving"
               /\ srv' # "serving"]_vars
    /\ [][(srv # "serving" /\ srv' = "serving") => (ready /\ listener = "bound")]_vars
    /\ [][\A h \in Handlers :
            (req[h].pc = "idle" /\ req'[h].pc # "idle") => (ready /\ srv = "serving")]_vars

\* C23 witness: a request has been answered by a server that signalled
\* readiness and serves on its bound socket
C23_Witness ==
    /\ ready
    /\ listener = "bound"
    /\ startPc = "serving"
    /\ \E h \in Handlers : req[h].pc = "done" /\ req[h].status = StatusOK

\* the state of the distribution server: Closed once Close was called,
\* Listening while it holds its bound socket, NotStarted before
ServerState ==
    IF srv = "closed" THEN "Closed"
    ELSE IF listener = "bound" THEN "Listening"
    ELSE "NotStarted"

StateRank(state) ==
    CASE state = "NotStarted" -> 0
      [] state = "Listening" -> 1
      [] state = "Closed" -> 2

\* C24: over any Start and Close calls the state of the server never moves
\* backwards along NotStarted, Listening, Closed. A bind that fails makes
\* Start return the error and leaves the state and the ready channel as they
\* were, and a server that is NotStarted has not signalled. Listening is
\* entered only by the step of Start whose bind succeeds. Closed is never
\* left, and no handler takes a request once the server is closed.
C24_StateMovesForward ==
    /\ [](ServerState = "NotStarted" => ~ready)
    /\ [][StateRank(ServerState') >= StateRank(ServerState)]_vars
    /\ [][(ServerState # "Listening" /\ ServerState' = "Listening")
            => /\ ServerState = "NotStarted"
               /\ startPc = "called"
               /\ startPc' = "bound"
               /\ startErr' = ""]_vars
    /\ [][(startErr # "bind" /\ startErr' = "bind")
            => /\ startPc = "called"
               /\ startPc' = "none"
               /\ ServerState' = ServerState
               /\ listener' = listener
               /\ ready' = ready]_vars
    /\ [][srv = "closed"
            => /\ srv' = "closed"
               /\ \A h \in Handlers : req[h].pc = "idle" => req'[h].pc = "idle"]_vars

\* C24 witness: the server listened and answered a request, then Close
\* released the socket and made Serve return
C24_Witness ==
    /\ ServerState = "Closed"
    /\ listener = "closed"
    /\ ready
    /\ startPc = "none"
    /\ startErr = "closed"
    /\ \E h \in Handlers : req[h].pc = "done" /\ req[h].status = StatusOK

\* C25: the ready channel is closed at most once: no call of Start reaches
\* close(s.ready) with the channel closed already, which is a panic.
C25_SignalAtMostOnce == ~(startPc = "bound" /\ ready /\ panicked)

\* C26: the process does not panic in the CDN rewrite when the distribution
\* server serves and a pack it is asked for could not be read at load: a read
\* on demand that fails again is reported and contained.
C26_RewriteDoesNotPanic ==
    ~(/\ panicked
      /\ mainPc = "rewriting"
      /\ srv = "serving"
      /\ \E i \in 1..Len(mainPacks) : mainPacks[i].uuid \notin DOMAIN contentCache)

\* C29: a 200 response carries the content of the pack the handler found
\* registered under the identifier when it looked it up.
C29_ServesRegisteredPack ==
    \A h \in Handlers :
        (req[h].pc = "done" /\ req[h].status = StatusOK)
        => req[h].body = req[h].pack.content

\* the command names completion offers
Vocabulary == {Commands[i].text : i \in 1..Len(Commands)}

\* C30: handleCommand reports an unknown command exactly for the first
\* tokens that are not in the completion vocabulary.
C30_VocabularyIsDispatched ==
    out.args # <<>>
    => (out.report = "unknown command" <=> out.args[1] \notin Vocabulary)

\* C27: when NewHistoryFile fails the console comes to its prompt all the
\* same; when the history is missing or its Save fails, the line the executor
\* took is handed to handleCommand, which dispatches it and, unless it was a
\* stop, returns to the prompt.
C27_HistoryErrorsAreContained ==
    /\ [][(consolePc = "init" /\ conf.tty /\ consolePc' # "init")
            => (consolePc' = "prompt" /\ exit' = "" /\ ~panicked')]_vars
    /\ [][(/\ consolePc = "prompt"
           /\ exit' = ""
           /\ \/ (hist' # hist /\ hist'.failed)
              \/ (~hist.exists /\ consolePc' # "prompt"))
            => /\ consolePc' = "dispatch"
               /\ cur' # <<>>
               /\ hist'.exists => hist'.last = cur'
               /\ ~panicked']_vars
    /\ [][(consolePc = "dispatch" /\ (out' # out \/ consolePc' # "dispatch" \/ exit' # exit))
            => /\ out'.args = Fields(cur)
               /\ ~panicked'
               /\ IF out'.report = "stopped"
                  THEN exit' = "stop"
                  ELSE consolePc' = "prompt" /\ exit' = ""]_vars

\* C27 witness: the Save of the line info failed, the line was dispatched
\* and the console is at its prompt again
C27_Witness ==
    /\ hist.exists
    /\ hist.failed
    /\ hist.last = CmdInfo
    /\ out.args = <<CmdInfo>>
    /\ out.report = "info"
    /\ consolePc = "prompt"
    /\ exit = ""

\* C28: the server map is written only by main before it has started the
\* engine, the console or any session; as long as main has not passed the
\* loop that fills the map there is no reader, and once a reader exists the
\* map holds what that loop wrote and never changes.
C28_ServerMapWrittenBeforeReaders ==
    /\ [](mainPc = "start"
            => (consolePc = "off" /\ engine = "none" /\ sessions = {} /\ comp.calls = 0))
    /\ []((consolePc # "off" \/ engine # "none" \/ sessions # {})
            => (mainPc = "accept" /\ serverMap = ServerMapOf(conf.servers)))
    /\ [][serverMap' # serverMap
            => /\ mainPc = "start"
               /\ consolePc' = "off"
               /\ engine' = "none"
               /\ sessions' = {}]_vars

\* C28 witness: the console has looked a server up in the map main filled
C28_Witness ==
    /\ mainPc = "accept"
    /\ consolePc = "prompt"
    /\ out.report = "transferred"
    /\ out.transfer.addr = Addr2
    /\ serverMap = ServerMapOf(ServersDefault)

\* C32: the run that follows a Save that returned nil loads exactly the
\* entries the run before had in memory, in their order.
C32_SaveLoadRoundTrip == store.op = "restart" => store.history = store.saved

\* C31: every request handler and every call of UpdatePacks completes under
\* fair scheduling; no handler holds packMutex and contentCacheMutex
\* together, and none holds a lock while it reads a pack or writes the response.
C31_HandlersAndUpdatesComplete ==
    /\ [](\A h \in Handlers :
            ~("packs" \in req[h].locks /\ req[h].locks \cap {"cacheR", "cacheW"} # {}))
    /\ [](\A h \in Handlers : req[h].pc \in {"read", "write"} => req[h].locks = {})
    /\ \A h \in Handlers : (req[h].pc # "idle") ~> (req[h].pc = "done")
    /\ (swap.pc # "idle") ~> (swap.pc = "idle")

\* one handler stores into the cache under the write lock while the other
\* waits for that lock and a call of UpdatePacks holds packMutex
C31_Witness ==
    /\ req["h1"].pc = "store"
    /\ req["h1"].locks = {"cacheW"}
    /\ req["h2"].pc = "lockCache"
    /\ swap.pc = "locked"

====
